---- MODULE Spec2Model ----
(***************************************************************************)
(* A model of the task store of claude-task-master-extension:              *)
(* TaskMasterClient (src/src/taskMasterClient.ts), TagManager              *)
(* (src/src/tagManager.ts) and MCPClient (src/src/mcpClient.ts).           *)
(*                                                                         *)
(* Strings that the code takes apart (task ids) are sequences of one-      *)
(* character strings, so that includes('.'), split('.'), lastIndexOf('.')  *)
(* and template concatenation are computed, not assumed.  An id is a       *)
(* record [num, s]: num says whether the JSON value is a number, s is its  *)
(* toString() text.  A task is identified by its title.                    *)
(***************************************************************************)
EXTENDS Integers, Sequences, FiniteSets, TLC

\* ------------------------------------------------------------------------
\* Bounds of the model
\* ------------------------------------------------------------------------
\* Largest number of task records (at every depth) of a sampled task list.
MaxNodes == 3

\* The clock stops the file backend's writes when it reaches MaxClock.
MaxClock == 2

\* How many subprocess-routed calls can be in progress at once.
MaxCalls == 2

\* ------------------------------------------------------------------------
\* String operations on ids
\* ------------------------------------------------------------------------
Dot == "."

\* String.prototype.includes('.')
HasDot(s) == \E i \in 1..Len(s) : s[i] = Dot

DotIndexes(s) == {i \in 1..Len(s) : s[i] = Dot}

FirstDotIndex(s) == CHOOSE i \in DotIndexes(s) : \A j \in DotIndexes(s) : i <= j

LastDotIndex(s) == CHOOSE i \in DotIndexes(s) : \A j \in DotIndexes(s) : j <= i

\* id.split('.')[0]
BeforeFirstDot(s) == IF HasDot(s) THEN SubSeq(s, 1, FirstDotIndex(s) - 1) ELSE s

\* id.split('.').slice(1).join('.')
AfterFirstDot(s) == IF HasDot(s) THEN SubSeq(s, FirstDotIndex(s) + 1, Len(s)) ELSE <<>>

\* `${a}.${b}`
DotJoin(a, b) == a \o <<Dot>> \o b

\* taskId.substring(0, taskId.lastIndexOf('.')); lastIndexOf is -1 without a
\* dot and substring(0, -1) is the empty string.
getParentId(taskId) ==
    IF HasDot(taskId) THEN SubSeq(taskId, 1, LastDotIndex(taskId) - 1) ELSE <<>>

\* (taskId.match(/\./g) || []).length
getNestingLevel(taskId) == Cardinality(DotIndexes(taskId))

\* id.toString(): the text of a number or of a string id.
IdText(id) == id.s

\* The id after `id: task.id.toString()`: always a string.
ToStringId(id) == [num |-> FALSE, s |-> id.s]

\* Mutant of SameId: the id only has to start with the text.
SameIdPrefix(id, text) ==
    Len(id.s) >= Len(text) /\ SubSeq(id.s, 1, Len(text)) = text

\* a.id.toString() === text: the comparison of every lookup by id.
SameId(id, text) == id.s = text

StrId(s) == [num |-> FALSE, s |-> s]
NumId(s) == [num |-> TRUE, s |-> s]

\* ------------------------------------------------------------------------
\* StatusCodec
\* ------------------------------------------------------------------------
CanonicalStatuses ==
    {"todo", "in-progress", "completed", "blocked", "deferred", "cancelled", "review"}

\* Own keys of the statusMap literal of normalizeStatus.
NormalizeKeys ==
    {"pending", "todo", "in-progress", "in_progress", "completed", "done",
     "blocked", "deferred", "cancelled", "review"}

NormalizeTable(k) ==
    CASE k \in {"pending", "todo"} -> "todo"
      [] k \in {"in-progress", "in_progress"} -> "in-progress"
      [] k \in {"completed", "done"} -> "completed"
      [] OTHER -> k

\* Property names every object literal inherits from Object.prototype: a
\* lookup statusMap[k] of one of them yields a function, which is truthy.
ObjectPrototypeKeys ==
    {"constructor", "toString", "valueOf", "hasOwnProperty", "__proto__"}

InheritedValue == "[inherited]"

\* statusMap[status] || 'todo'
normalizeStatus(status) ==
    IF status \in NormalizeKeys THEN NormalizeTable(status)
    ELSE IF status \in ObjectPrototypeKeys THEN InheritedValue
    ELSE "todo"

\* Mutant of denormalizeStatus: the status is stored as it came.
DenormalizeIdentity(status) == status

\* statusMap[status] || status
denormalizeStatus(status) ==
    IF status = "todo" THEN "pending"
    ELSE IF status = "completed" THEN "done"
    ELSE IF status \in ObjectPrototypeKeys THEN InheritedValue
    ELSE status

\* task.status || 'pending': a missing status is the empty string here.
OrPending(status) == IF status = "" THEN "pending" ELSE status

\* ------------------------------------------------------------------------
\* Tasks
\* ------------------------------------------------------------------------
\* parentId <<>> stands for an undefined parentId.  A missing subtasks
\* property and an empty subtasks array are both <<>>: every use in the code
\* (`task.subtasks ? ... : []`, `if (item.subtasks)`, `.length > 0`) treats
\* the two alike.
MkTask(title, id, status, updated, subtasks) ==
    [title |-> title, id |-> id, status |-> status, updated |-> updated,
     subtasks |-> subtasks, parentId |-> <<>>]

\* The position of the first TRUE of a sequence of truth values, 0 if none:
\* where Array.prototype.find stops, given the callback's answers.
FindIndex(flags) ==
    IF \E i \in 1..Len(flags) : flags[i]
    THEN CHOOSE i \in 1..Len(flags) : flags[i] /\ \A j \in 1..(i - 1) : ~flags[j]
    ELSE 0

\* The callback item => item.id.toString() === text on every item of seq.
IdFlags(seq, text) == [i \in 1..Len(seq) |-> SameId(seq[i].id, text)]

Found(t) == [found |-> TRUE, task |-> t]
NotFound == [found |-> FALSE, task |-> MkTask("", StrId(<<>>), "", 0, <<>>)]

\* ------------------------------------------------------------------------
\* HierarchyBuilder: processTaskHierarchy
\* ------------------------------------------------------------------------
DigitValue(c) ==
    CASE c = "0" -> 0 [] c = "1" -> 1 [] c = "2" -> 2 [] c = "3" -> 3 [] c = "4" -> 4
      [] c = "5" -> 5 [] c = "6" -> 6 [] c = "7" -> 7 [] c = "8" -> 8 [] c = "9" -> 9

RECURSIVE NumberValue(_)
\* The number a run of digits denotes.
NumberValue(s) ==
    IF s = <<>> THEN 0
    ELSE 10 * NumberValue(SubSeq(s, 1, Len(s) - 1)) + DigitValue(s[Len(s)])

RECURSIVE Segments(_)
\* id.split('.')
Segments(s) ==
    IF HasDot(s) THEN <<BeforeFirstDot(s)>> \o Segments(AfterFirstDot(s)) ELSE <<s>>

RECURSIVE SegmentsLess(_, _)
SegmentsLess(a, b) ==
    IF a = <<>> THEN b # <<>>
    ELSE IF b = <<>> THEN FALSE
    ELSE IF NumberValue(Head(a)) # NumberValue(Head(b))
         THEN NumberValue(Head(a)) < NumberValue(Head(b))
         ELSE SegmentsLess(Tail(a), Tail(b))

\* a.localeCompare(b, undefined, { numeric: true }) < 0 on ids made of digit
\* runs separated by dots: digit runs compare by their numeric value.
NaturalLess(a, b) == SegmentsLess(Segments(a), Segments(b))

\* The comparator of sortedTaskIds: depth (number of dots) first, then
\* natural order.
HierarchyLess(a, b) ==
    IF getNestingLevel(a) # getNestingLevel(b)
    THEN getNestingLevel(a) < getNestingLevel(b)
    ELSE NaturalLess(a, b)

RECURSIVE SortKeys(_)
\* Array.from(taskMap.keys()).sort(comparator): the keys are pairwise
\* distinct, so the order of the result does not depend on insertion order.
SortKeys(keys) ==
    IF keys = {} THEN <<>>
    ELSE LET m == CHOOSE k \in keys : \A o \in keys \ {k} : HierarchyLess(k, o)
         IN  <<m>> \o SortKeys(keys \ {m})

\* taskMap.get(k) after the first pass: Map.set keeps the last task with a
\* given id.
TaskMapValue(tasks, k) ==
    LET last == CHOOSE i \in 1..Len(tasks) :
                    /\ IdText(tasks[i].id) = k
                    /\ \A j \in (i + 1)..Len(tasks) : IdText(tasks[j].id) # k
    IN  tasks[last]

RECURSIVE AttachSubtasks(_, _, _)
\* The object taskMap holds under key k once the second pass has ended: the
\* tasks whose parent id is k were pushed to its subtasks in sorted order,
\* each by reference, so that their own subtasks are attached as well.
AttachSubtasks(tasks, sorted, k) ==
    LET kids == SelectSeq(sorted, LAMBDA c : HasDot(c) /\ getParentId(c) = k)
    IN  [TaskMapValue(tasks, k) EXCEPT
            !.subtasks = [i \in 1..Len(kids) |->
                [AttachSubtasks(tasks, sorted, kids[i]) EXCEPT !.parentId = k]]]

\* Mutant of processTaskHierarchy: a list that has subtask arrays is rebuilt
\* from its ids as well.
ProcessAlways(tasks) ==
    IF ~\E i \in 1..Len(tasks) : HasDot(IdText(tasks[i].id)) THEN tasks
    ELSE LET keys   == {IdText(tasks[i].id) : i \in 1..Len(tasks)}
             sorted == SortKeys(keys)
             roots  == SelectSeq(sorted,
                           LAMBDA k : ~HasDot(k) \/ getParentId(k) \notin keys)
         IN  [i \in 1..Len(roots) |-> AttachSubtasks(tasks, sorted, roots[i])]

processTaskHierarchy(tasks) ==
    IF \E i \in 1..Len(tasks) : Len(tasks[i].subtasks) > 0 THEN tasks
    ELSE IF ~\E i \in 1..Len(tasks) : HasDot(IdText(tasks[i].id)) THEN tasks
    ELSE LET keys   == {IdText(tasks[i].id) : i \in 1..Len(tasks)}
             sorted == SortKeys(keys)
             roots  == SelectSeq(sorted,
                           LAMBDA k : ~HasDot(k) \/ getParentId(k) \notin keys)
         IN  [i \in 1..Len(roots) |-> AttachSubtasks(tasks, sorted, roots[i])]

\* ------------------------------------------------------------------------
\* Documents: tasks.json, state.json and the individual task files
\* ------------------------------------------------------------------------
\* The value of a context key: { tasks: [...], metadata }.  hasTasks says
\* whether the tasks property is there and is an array.
TagData(hasTasks, tasks, meta) == [hasTasks |-> hasTasks, tasks |-> tasks, meta |-> meta]

\* A parsed tasks.json, by the properties the code probes:
\*   isArray, items      the document is an array, and its elements;
\*   ctx                 the top-level keys other than "tags" and "tasks",
\*                       each with its TagData;
\*   hasTags, tags       a top-level "tags" object, and its keys;
\*   hasTasks, tasks     a top-level "tasks" array, and its elements.
Json(isArray, items, ctx, hasTags, tags, hasTasks, tasks) ==
    [isArray |-> isArray, items |-> items, ctx |-> ctx, hasTags |-> hasTags,
     tags |-> tags, hasTasks |-> hasTasks, tasks |-> tasks]

NoCtx == [t \in {} |-> TagData(FALSE, <<>>, 0)]

ArrayJson(tasks) == Json(TRUE, tasks, NoCtx, FALSE, NoCtx, FALSE, <<>>)
LegacyJson(tasks) == Json(FALSE, <<>>, NoCtx, FALSE, NoCtx, TRUE, tasks)
DirectTagJson(ctx) == Json(FALSE, <<>>, ctx, FALSE, NoCtx, FALSE, <<>>)
NestedTagJson(tags) == Json(FALSE, <<>>, NoCtx, TRUE, tags, FALSE, <<>>)

\* A file: whether it exists, whether JSON.parse accepts it, what it holds.
File(exists, parses, json) == [exists |-> exists, parses |-> parses, json |-> json]

\* state.json: currentTag "" stands for a missing (falsy) currentTag.
StateRecord(currentTag, migrationCompleted) ==
    [currentTag |-> currentTag, migrationCompleted |-> migrationCompleted]

\* tagData && tagData.tasks && Array.isArray(tagData.tasks)
HasTaskArray(ctx, tag) == tag \in DOMAIN ctx /\ ctx[tag].hasTasks

\* The current tag as getTasks and extractTasksFromContainer read it from
\* state.json: 'master' when the file is absent, unparsable or has no
\* currentTag.
StateFileTag(sf) ==
    IF sf.exists /\ sf.parses /\ sf.json.currentTag # "" THEN sf.json.currentTag
    ELSE "master"

\* ------------------------------------------------------------------------
\* FormatNormalizer as getTasks does it (lines 84-160)
\* ------------------------------------------------------------------------
\* The tasks of the current tag of a tag map, or master's, or none.
TagTasksOrMaster(ctx, currentTag) ==
    IF HasTaskArray(ctx, currentTag) THEN ctx[currentTag].tasks
    ELSE IF HasTaskArray(ctx, "master") THEN ctx["master"].tasks
    ELSE <<>>

ReadRawTasks(json, sf) ==
    IF json.isArray THEN json.items
    ELSE IF HasTaskArray(json.ctx, "master")
         THEN TagTasksOrMaster(json.ctx, StateFileTag(sf))
    ELSE IF json.hasTags THEN TagTasksOrMaster(json.tags, StateFileTag(sf))
    ELSE IF json.hasTasks THEN json.tasks
    ELSE <<>>

\* The map over a task's subtasks (lines 171-177): one level deep.
NormalizeSubtask(st) ==
    [st EXCEPT !.id = ToStringId(st.id),
               !.status = normalizeStatus(OrPending(st.status))]

\* The map over the raw tasks (lines 165-178).
NormalizeTask(t) ==
    [t EXCEPT !.id = ToStringId(t.id),
              !.status = normalizeStatus(OrPending(t.status)),
              !.subtasks = [i \in 1..Len(t.subtasks) |-> NormalizeSubtask(t.subtasks[i])]]

\* The object pushed for an individual task file (lines 218-227): the spread
\* of the raw task comes after the normalized status, so that a status the
\* file has wins.
NormalizeFileTask(t) ==
    [t EXCEPT !.id = ToStringId(t.id),
              !.status = IF t.status = "" THEN normalizeStatus("pending") ELSE t.status,
              !.subtasks = [i \in 1..Len(t.subtasks) |-> NormalizeSubtask(t.subtasks[i])]]

\* The task files of the tasks directory, in name order: each parses or not;
\* a parsed one is kept if task.id && task.title.
ReadTaskFiles(dir) ==
    LET kept == SelectSeq(dir.files,
                    LAMBDA f : f.parses /\ IdText(f.json.id) # <<>>
                               /\ IdText(f.json.id) # <<"0">> /\ f.json.title # "")
    IN  [i \in 1..Len(kept) |-> NormalizeFileTask(kept[i].json)]

\* ------------------------------------------------------------------------
\* MCPClient.getTasks: the reply of the get_tasks tool call
\* ------------------------------------------------------------------------
\* A reply is [ok, envelope, isArray, tasks]: the call failed (ok = FALSE);
\* or it carries tagInfo.tasks (envelope); or it is an array; or neither.
McpReply(ok, envelope, isArray, tasks) ==
    [ok |-> ok, envelope |-> envelope, isArray |-> isArray, tasks |-> tasks]

McpGetTasks(reply) ==
    IF reply.envelope THEN reply.tasks
    ELSE IF reply.isArray THEN reply.tasks
    ELSE <<>>

\* ------------------------------------------------------------------------
\* TaskMasterClient.getTasks
\* ------------------------------------------------------------------------
\* mcpUp: the liveness probe's answer; reply: the tool call's reply; tj, sf:
\* tasks.json and state.json; dir: the tasks directory [exists, files].
getTasks(mcpUp, reply, tj, sf, dir) ==
    IF mcpUp /\ reply.ok THEN McpGetTasks(reply)
    ELSE IF tj.exists
         THEN IF ~tj.parses THEN <<>>
              ELSE processTaskHierarchy(
                       [i \in 1..Len(ReadRawTasks(tj.json, sf)) |->
                           NormalizeTask(ReadRawTasks(tj.json, sf)[i])])
    ELSE IF ~dir.exists THEN <<>>
    ELSE processTaskHierarchy(ReadTaskFiles(dir))

\* ------------------------------------------------------------------------
\* TaskMasterClient.getTaskDetails (resolve)
\* ------------------------------------------------------------------------
\* Array.prototype.find: the first element of seq whose flag is TRUE.
FindTask(seq, flags) ==
    IF FindIndex(flags) = 0 THEN NotFound ELSE Found(seq[FindIndex(flags)])

\* What follows the last dot of s.
AfterLastDot(s) == IF HasDot(s) THEN SubSeq(s, LastDotIndex(s) + 1, Len(s)) ELSE <<>>

\* Mutant of SuffixMatches: the suffix is taken after the last dot.
SuffixMatchesLastDot(sub, subtaskId) ==
    HasDot(IdText(sub.id)) /\ AfterLastDot(IdText(sub.id)) = subtaskId

\* Strategy 3 of the subtaskId branch (lines 488-495): the subtask's id has a
\* dot and what follows its first dot is subtaskId.
SuffixMatches(sub, subtaskId) ==
    HasDot(IdText(sub.id)) /\ AfterFirstDot(IdText(sub.id)) = subtaskId

\* Lines 463-508: both a main task id and a subtask id are given.
ResolveSubtask(tasks, taskId, subtaskId) ==
    LET main == FindTask(tasks, IdFlags(tasks, taskId))
        subs == main.task.subtasks
        exact  == FindTask(subs, IdFlags(subs, subtaskId))
        full   == FindTask(subs, IdFlags(subs, DotJoin(taskId, subtaskId)))
        suffix == FindTask(subs, [i \in 1..Len(subs) |-> SuffixMatches(subs[i], subtaskId)])
    IN  IF ~main.found THEN NotFound
        ELSE IF exact.found THEN exact
        ELSE IF full.found THEN full
        ELSE suffix

\* Lines 511-535: taskId has a dot.
ResolveDotted(tasks, taskId) ==
    LET mainTaskId == BeforeFirstDot(taskId)
        rest       == AfterFirstDot(taskId)
        main       == FindTask(tasks, IdFlags(tasks, mainTaskId))
    IN  IF mainTaskId = <<>> \/ ~main.found \/ rest = <<>> THEN NotFound
        ELSE FindTask(main.task.subtasks,
                      [i \in 1..Len(main.task.subtasks) |->
                          \/ SameId(main.task.subtasks[i].id, taskId)
                          \/ SameId(main.task.subtasks[i].id, rest)])

RECURSIVE findSubtaskDirect(_, _)
\* Mutant of findSubtaskById: the subtasks of the main tasks only.
findSubtaskDirect(searchTasks, taskId) ==
    IF searchTasks = <<>> THEN NotFound
    ELSE LET direct == FindTask(Head(searchTasks).subtasks,
                                IdFlags(Head(searchTasks).subtasks, taskId))
         IN  IF direct.found THEN direct
             ELSE findSubtaskDirect(Tail(searchTasks), taskId)

RECURSIVE findSubtaskById(_, _)
\* Lines 545-562: for each task in order, its own subtasks first, then the
\* levels below them, before the next task.
findSubtaskById(searchTasks, taskId) ==
    IF searchTasks = <<>> THEN NotFound
    ELSE LET task   == Head(searchTasks)
             direct == FindTask(task.subtasks, IdFlags(task.subtasks, taskId))
             deeper == findSubtaskById(task.subtasks, taskId)
         IN  IF direct.found THEN direct
             ELSE IF deeper.found THEN deeper
             ELSE findSubtaskById(Tail(searchTasks), taskId)

\* Lines 537-571: taskId has no dot.
ResolveUndotted(tasks, taskId) ==
    LET main == FindTask(tasks, IdFlags(tasks, taskId))
    IN  IF main.found THEN main ELSE findSubtaskById(tasks, taskId)

\* getTaskDetails(taskId, subtaskId) on the list getTasks returned;
\* subtaskId <<>> stands for an absent (or empty) subtaskId.
getTaskDetails(tasks, taskId, subtaskId) ==
    IF subtaskId # <<>> THEN ResolveSubtask(tasks, taskId, subtaskId)
    ELSE IF HasDot(taskId) THEN ResolveDotted(tasks, taskId)
    ELSE ResolveUndotted(tasks, taskId)

\* ------------------------------------------------------------------------
\* extractTasksFromContainer and writeTasksToContainer
\* ------------------------------------------------------------------------
Extracted(ok, err, tasks, isTaggedFormat, currentTag) ==
    [ok |-> ok, err |-> err, tasks |-> tasks, isTaggedFormat |-> isTaggedFormat,
     currentTag |-> currentTag]

\* Lines 374-387 and 403-416: the current tag's tasks, else master's with
\* currentTag reset to 'master', else an error.
ExtractFromTags(ctx, currentTag) ==
    IF HasTaskArray(ctx, currentTag) THEN Extracted(TRUE, "", ctx[currentTag].tasks, TRUE, currentTag)
    ELSE IF HasTaskArray(ctx, "master") THEN Extracted(TRUE, "", ctx["master"].tasks, TRUE, "master")
    ELSE Extracted(FALSE, "NoTasksInTag", <<>>, TRUE, currentTag)

extractTasksFromContainer(json, sf) ==
    IF json.isArray THEN Extracted(TRUE, "", json.items, FALSE, "master")
    ELSE IF HasTaskArray(json.ctx, "master") THEN ExtractFromTags(json.ctx, StateFileTag(sf))
    ELSE IF json.hasTags THEN ExtractFromTags(json.tags, StateFileTag(sf))
    ELSE IF json.hasTasks THEN Extracted(TRUE, "", json.tasks, FALSE, "master")
    ELSE Extracted(FALSE, "UnknownFormat", <<>>, FALSE, "master")

\* The container once the extracted array was mutated in place: the array
\* extractTasksFromContainer returned is the container's own.
MutatedInPlace(json, sf, tasks) ==
    LET ex == extractTasksFromContainer(json, sf)
    IN  IF json.isArray THEN [json EXCEPT !.items = tasks]
        ELSE IF HasTaskArray(json.ctx, "master")
             THEN [json EXCEPT !.ctx[ex.currentTag].tasks = tasks]
        ELSE IF json.hasTags THEN [json EXCEPT !.tags[ex.currentTag].tasks = tasks]
        ELSE [json EXCEPT !.tasks = tasks]

Written(ok, json) == [ok |-> ok, json |-> json]

\* writeTasksToContainer (lines 430-455): where the tasks are assigned before
\* the container is serialized.  Assigning to the tasks of a key the object
\* lacks is a TypeError, and then nothing is written.
\* Mutant of writeTasksToContainer: the tasks are written as a legacy
\* document whatever was read.
WriteAsLegacy(tasks, isTaggedFormat, currentTag, json) ==
    Written(TRUE, LegacyJson(tasks))

writeTasksToContainer(tasks, isTaggedFormat, currentTag, json) ==
    IF isTaggedFormat
    THEN IF json.hasTags
         THEN IF currentTag \in DOMAIN json.tags
              THEN Written(TRUE, [json EXCEPT !.tags[currentTag].tasks = tasks,
                                              !.tags[currentTag].hasTasks = TRUE])
              ELSE Written(FALSE, json)
         ELSE IF currentTag \in DOMAIN json.ctx
              THEN Written(TRUE, [json EXCEPT !.ctx[currentTag].tasks = tasks,
                                              !.ctx[currentTag].hasTasks = TRUE])
              ELSE Written(FALSE, json)
    ELSE IF json.isArray THEN Written(TRUE, [json EXCEPT !.items = tasks])
    ELSE Written(TRUE, [json EXCEPT !.tasks = tasks, !.hasTasks = TRUE])

\* ------------------------------------------------------------------------
\* TaskMasterClient.setTaskStatus, file backend (lines 595-649)
\* ------------------------------------------------------------------------
\* task.status = denormalizeStatus(status); task.updated = now
Restatus(task, status, now) ==
    [task EXCEPT !.status = denormalizeStatus(status), !.updated = now]

\* Mutant of Updated: the search always reports that it updated a record.
UpdatedAlways(updated, tasks) == [updated |-> TRUE, tasks |-> tasks]

\* taskUpdated, and the list as the search left it.
Updated(updated, tasks) == [updated |-> updated, tasks |-> tasks]

RECURSIVE updateSubtaskRecursive(_, _, _, _, _)
\* Lines 619-638, from item i of items on: the first item, in order, that
\* has the id among its own subtasks or, failing that, below them.
updateSubtaskRecursive(items, i, taskId, status, now) ==
    IF i > Len(items) THEN Updated(FALSE, items)
    ELSE LET subs   == items[i].subtasks
             direct == FindIndex(IdFlags(subs, taskId))
             deeper == updateSubtaskRecursive(subs, 1, taskId, status, now)
         IN  IF direct # 0
             THEN Updated(TRUE, [items EXCEPT
                      ![i].subtasks[direct] = Restatus(subs[direct], status, now)])
             ELSE IF deeper.updated
             THEN Updated(TRUE, [items EXCEPT ![i].subtasks = deeper.tasks])
             ELSE updateSubtaskRecursive(items, i + 1, taskId, status, now)

\* Lines 605-641: main tasks first, then the subtasks at every level.
UpdateTaskStatus(tasks, taskId, status, now) ==
    LET main == FindIndex(IdFlags(tasks, taskId))
    IN  IF main # 0
        THEN Updated(TRUE, [tasks EXCEPT ![main] = Restatus(tasks[main], status, now)])
        ELSE updateSubtaskRecursive(tasks, 1, taskId, status, now)

Outcome(ok, err, via, tj) == [ok |-> ok, err |-> err, via |-> via, tj |-> tj]

\* The file backend of setTaskStatus: the outcome and tasks.json after it.
SetTaskStatusFile(tj, sf, taskId, status, now) ==
    IF ~tj.exists THEN Outcome(FALSE, "TasksJsonNotFound", "file", tj)
    ELSE IF ~tj.parses THEN Outcome(FALSE, "SyntaxError", "file", tj)
    ELSE LET ex == extractTasksFromContainer(tj.json, sf)
             up == UpdateTaskStatus(ex.tasks, taskId, status, now)
             wr == writeTasksToContainer(up.tasks, ex.isTaggedFormat, ex.currentTag,
                                         MutatedInPlace(tj.json, sf, up.tasks))
         IN  IF ~ex.ok THEN Outcome(FALSE, ex.err, "file", tj)
             ELSE IF ~up.updated THEN Outcome(FALSE, "TaskNotFound", "file", tj)
             ELSE IF ~wr.ok THEN Outcome(FALSE, "TypeError", "file", tj)
             ELSE Outcome(TRUE, "", "file", File(TRUE, TRUE, wr.json))

\* setTaskStatus (lines 580-655): the protocol client when the probe answers
\* and the call succeeds, else the file backend.
setTaskStatus(mcpUp, mcpOk, tj, sf, taskId, status, now) ==
    IF mcpUp /\ mcpOk THEN Outcome(TRUE, "", "mcp", tj)
    ELSE SetTaskStatusFile(tj, sf, taskId, status, now)

\* ------------------------------------------------------------------------
\* State
\* ------------------------------------------------------------------------
VARIABLES
    tasksJson,   \* the file tasks/tasks.json
    stateJson,   \* the file state.json
    taskDir,     \* the tasks directory: [exists, files], files in name order
    tagState,    \* TagManager.currentState
    mcpTag,      \* MCPClient.currentTag
    installed,   \* TaskMasterClient.taskMasterInstalled: "null", "true", "false"
    inflight,    \* the subprocess-routed calls in progress, each at its await
    probes,      \* history: the answers of the version probes run so far
    clock,       \* the wall clock, read by new Date()
    last         \* the last call: its arguments, the probe's answer, its result

vars ==
    <<tasksJson, stateJson, taskDir, tagState, mcpTag, installed, inflight, probes,
      clock, last>>

files == <<tasksJson, stateJson, taskDir>>
backends == <<tagState, mcpTag, installed, inflight, probes>>

\* A call that is not in progress, and one that waits at `pos`: "probe" for
\* the liveness probe, "mcp" for the tool call, "version" for the version
\* probe, "command" for the command; `direct` is isInstalled's value and
\* `trace` what the call did so far.
Call(op, pos, direct, trace) == [op |-> op, pos |-> pos, direct |-> direct, trace |-> trace]
Idle == Call("", "idle", FALSE, <<>>)

NoDir == [exists |-> FALSE, files |-> <<>>]
NoState == File(FALSE, FALSE, StateRecord("", FALSE))
NoReply == McpReply(FALSE, FALSE, FALSE, <<>>)

\* One block of the record getTaskProgress returns.
Tally(total, completed, inProgress, todo, blocked) ==
    [total |-> total, completed |-> completed, inProgress |-> inProgress,
     todo |-> todo, blocked |-> blocked]

NoProgress ==
    [total |-> 0, completed |-> 0, inProgress |-> 0, todo |-> 0, blocked |-> 0,
     mainTasks |-> Tally(0, 0, 0, 0, 0), allItems |-> Tally(0, 0, 0, 0, 0)]

\* `before` is tasks.json and tagBefore the current tag as the call found
\* them, `tasks` the list getTasks returned to it, `found` what
\* getTaskDetails returned, ok/err/via the outcome of a mutation and the
\* backend that produced it, `trace` the probes and backend calls it made,
\* in order, `tagged` what isTaggedFormat answered, mcpId the id argument
\* of the set_task_status tool call setSubtaskStatus made, mcpBefore the
\* protocol client's current tag as the call found it.
NoCall ==
    [op |-> "none", taskId |-> <<>>, subtaskId |-> <<>>, status |-> "", tag |-> "",
     mcpUp |-> FALSE, now |-> 0, tasks |-> <<>>, found |-> NotFound,
     ok |-> TRUE, err |-> "", via |-> "", before |-> tasksJson,
     tagBefore |-> tagState.currentTag, trace |-> <<>>,
     progress |-> NoProgress, tagged |-> FALSE, mcpId |-> <<>>,
     mcpBefore |-> mcpTag]

\* TagManager.loadState: the state state.json holds, a missing currentTag
\* read as 'master'; the default state when the file is absent or does not
\* parse.
loadState(sf) ==
    IF sf.exists /\ sf.parses
    THEN StateRecord(IF sf.json.currentTag = "" THEN "master" ELSE sf.json.currentTag,
                     sf.json.migrationCompleted)
    ELSE StateRecord("master", FALSE)

\* A store just constructed: the tag state loaded, no probe made yet.
Fresh ==
    /\ tagState = loadState(stateJson)
    /\ mcpTag = "master"
    /\ installed = "null"
    /\ inflight = [c \in 1..MaxCalls |-> Idle]
    /\ probes = <<>>
    /\ clock = 1

\* ------------------------------------------------------------------------
\* Sampled task lists: every ordered forest of at most MaxNodes records
\* ------------------------------------------------------------------------
Titles == <<"T1", "T2", "T3", "T4", "T5", "T6">>

\* Parent arrays in preorder: node i hangs under 0 (a root) or under a node
\* of the path from node i - 1 up to its root.
RECURSIVE PathUp(_, _)
PathUp(parent, i) == IF i = 0 THEN {} ELSE {i} \cup PathUp(parent, parent[i])

Preorders(n) ==
    {parent \in [1..n -> 0..(n - 1)] :
        \A i \in 1..n : parent[i] = 0 \/ (i > 1 /\ parent[i] \in PathUp(parent, i - 1))}

\* Ids of main tasks and of subtasks in the sampled lists.  A number and a
\* string of the same text, ids one character apart, and ids with one and
\* with two dots are all there.
RootIds ==
    {NumId(<<"1">>), StrId(<<"1">>), StrId(<<"1", "1">>), StrId(<<"2">>),
     StrId(<<"2", ".", "1">>)}

SubIds ==
    {NumId(<<"1">>), StrId(<<"2", ".", "1">>), StrId(<<"2", ".", "1", "1">>),
     StrId(<<"2", ".", "1", ".", "1">>)}

IdChoices(parent) ==
    {ids \in [DOMAIN parent -> RootIds \cup SubIds] :
        \A i \in DOMAIN parent :
            ids[i] \in (IF parent[i] = 0 THEN RootIds ELSE SubIds)}

\* The increasing sequence of the members of a set of numbers.
RECURSIVE Ascending(_)
Ascending(S) ==
    IF S = {} THEN <<>>
    ELSE LET m == CHOOSE x \in S : \A y \in S : x <= y
         IN  <<m>> \o Ascending(S \ {m})

RECURSIVE TreeAt(_, _, _, _)
TreeAt(parent, ids, status, i) ==
    LET kids == Ascending({c \in DOMAIN parent : parent[c] = i})
    IN  MkTask(Titles[i], ids[i], status[i], 0,
               [k \in 1..Len(kids) |-> TreeAt(parent, ids, status, kids[k])])

Forest(parent, ids, status) ==
    LET roots == Ascending({c \in DOMAIN parent : parent[c] = 0})
    IN  [k \in 1..Len(roots) |-> TreeAt(parent, ids, status, roots[k])]

\* Every list of at most m records, all with the status "pending".
ForestsUpTo(m) ==
    UNION {UNION {{Forest(parent, ids, [i \in 1..n |-> "pending"]) :
                      ids \in IdChoices(parent)} :
                  parent \in Preorders(n)} :
           n \in 0..m}

PendingForests == ForestsUpTo(MaxNodes)

\* ------------------------------------------------------------------------
\* The protocol server, as the store sees it
\* ------------------------------------------------------------------------
\* The replies get_tasks can give: the call fails, or the server returns the
\* records of the requested context as the document holds them (raw ids and
\* statuses), inside a tagInfo.tasks envelope or as a bare array.
ServerReplies(tj, sf) ==
    IF tj.exists /\ tj.parses
    THEN {NoReply, McpReply(TRUE, TRUE, FALSE, ReadRawTasks(tj.json, sf)),
          McpReply(TRUE, FALSE, TRUE, ReadRawTasks(tj.json, sf))}
    ELSE {NoReply, McpReply(TRUE, TRUE, FALSE, <<>>)}

\* ------------------------------------------------------------------------
\* Reads
\* ------------------------------------------------------------------------
\* One step of a call's trace: a probe or a backend, and how it ended.
\* "probe" is the protocol server's liveness probe, "mcp" a tool call,
\* "version" the probe for the task-master command, "cli" the command run
\* directly, "npx" the command run through npx, "file" the file backend.
Ev(backend, ok) == [backend |-> backend, ok |-> ok]

\* The answers of the version probes of a trace.
VersionAnswers(trace) ==
    LET ran == SelectSeq(trace, LAMBDA e : e.backend = "version")
    IN  [i \in 1..Len(ran) |-> ran[i].ok]

\* The trace of getTasks: the probe; the tool call if the probe answered;
\* the files unless the tool call succeeded.
GetTasksTrace(mcpUp, reply) ==
    <<Ev("probe", mcpUp)>>
        \o (IF mcpUp THEN <<Ev("mcp", reply.ok)>> ELSE <<>>)
        \o (IF mcpUp /\ reply.ok THEN <<>> ELSE <<Ev("file", TRUE)>>)

\* getTasks(): the probe answers mcpUp and the tool call gives reply.
GetTasks(mcpUp, reply) ==
    /\ last' = [NoCall EXCEPT !.op = "getTasks", !.mcpUp = mcpUp,
                    !.via = IF mcpUp /\ reply.ok THEN "mcp" ELSE "file",
                    !.tasks = getTasks(mcpUp, reply, tasksJson, stateJson, taskDir),
                    !.trace = GetTasksTrace(mcpUp, reply)]
    /\ UNCHANGED <<files, backends, clock>>

\* getTaskDetails(taskId, subtaskId): getTasks() first, then the search.
GetTaskDetails(taskId, subtaskId, mcpUp, reply) ==
    LET tasks == getTasks(mcpUp, reply, tasksJson, stateJson, taskDir)
    IN  /\ last' = [NoCall EXCEPT !.op = "getTaskDetails", !.taskId = taskId,
                        !.subtaskId = subtaskId, !.mcpUp = mcpUp,
                        !.via = IF mcpUp /\ reply.ok THEN "mcp" ELSE "file",
                        !.tasks = tasks,
                        !.found = getTaskDetails(tasks, taskId, subtaskId)]
        /\ UNCHANGED <<files, backends, clock>>

\* ------------------------------------------------------------------------
\* TaskMasterClient.getTaskProgress
\* ------------------------------------------------------------------------
\* What one item adds to a counter: the total counts every item, the other
\* four are the cases of switch (this.normalizeStatus(task.status)).
CountsAs(task, counter) ==
    IF counter = "total" \/ normalizeStatus(task.status) = counter THEN 1 ELSE 0

RECURSIVE countMainTasks(_, _)
\* The loop of countMainTasks: the items of the list, not their subtasks.
countMainTasks(taskItems, counter) ==
    IF taskItems = <<>> THEN 0
    ELSE CountsAs(Head(taskItems), counter) + countMainTasks(Tail(taskItems), counter)

RECURSIVE countItemsOneLevel(_, _)
\* Mutant of countAllItems: the subtasks of subtasks are not counted.
countItemsOneLevel(taskItems, counter) ==
    IF taskItems = <<>> THEN 0
    ELSE CountsAs(Head(taskItems), counter)
             + countMainTasks(Head(taskItems).subtasks, counter)
             + countItemsOneLevel(Tail(taskItems), counter)

RECURSIVE countAllItems(_, _)
\* The loop of countAllItems: each item, then its subtasks, recursively.
countAllItems(taskItems, counter) ==
    IF taskItems = <<>> THEN 0
    ELSE CountsAs(Head(taskItems), counter)
             + countAllItems(Head(taskItems).subtasks, counter)
             + countAllItems(Tail(taskItems), counter)

\* The record returned (lines 875-897).
getTaskProgress(tasks) ==
    [total      |-> countAllItems(tasks, "total"),
     completed  |-> countAllItems(tasks, "completed"),
     inProgress |-> countAllItems(tasks, "in-progress"),
     todo       |-> countAllItems(tasks, "todo"),
     blocked    |-> countAllItems(tasks, "blocked"),
     mainTasks  |-> Tally(countMainTasks(tasks, "total"),
                          countMainTasks(tasks, "completed"),
                          countMainTasks(tasks, "in-progress"),
                          countMainTasks(tasks, "todo"),
                          countMainTasks(tasks, "blocked")),
     allItems   |-> Tally(countAllItems(tasks, "total"),
                          countAllItems(tasks, "completed"),
                          countAllItems(tasks, "in-progress"),
                          countAllItems(tasks, "todo"),
                          countAllItems(tasks, "blocked"))]

\* getTaskProgress(): getTasks() first, then the two counts.
GetTaskProgress(mcpUp, reply) ==
    LET tasks == getTasks(mcpUp, reply, tasksJson, stateJson, taskDir)
    IN  /\ last' = [NoCall EXCEPT !.op = "getTaskProgress", !.mcpUp = mcpUp,
                        !.via = IF mcpUp /\ reply.ok THEN "mcp" ELSE "file",
                        !.tasks = tasks,
                        !.progress = getTaskProgress(tasks),
                        !.trace = GetTasksTrace(mcpUp, reply)]
        /\ UNCHANGED <<files, backends, clock>>

\* ------------------------------------------------------------------------
\* Status updates
\* ------------------------------------------------------------------------
\* The trace of setTaskStatus: the probe; the tool call if the probe
\* answered; the file backend unless the tool call succeeded.
SetTaskStatusTrace(mcpUp, mcpOk, out) ==
    <<Ev("probe", mcpUp)>>
        \o (IF mcpUp THEN <<Ev("mcp", mcpOk)>> ELSE <<>>)
        \o (IF mcpUp /\ mcpOk THEN <<>> ELSE <<Ev("file", out.ok)>>)

\* setTaskStatus(taskId, status): the probe answers mcpUp, the tool call
\* ends as mcpOk says.  The file backend stamps the record with the clock.
SetTaskStatus(taskId, status, mcpUp, mcpOk) ==
    LET out == setTaskStatus(mcpUp, mcpOk, tasksJson, stateJson, taskId, status, clock)
    IN  /\ clock < MaxClock
        /\ tasksJson' = out.tj
        /\ clock' = IF out.via = "file" /\ out.ok THEN clock + 1 ELSE clock
        /\ last' = [NoCall EXCEPT !.op = "setTaskStatus", !.taskId = taskId,
                        !.status = status, !.mcpUp = mcpUp, !.now = clock,
                        !.ok = out.ok, !.err = out.err, !.via = out.via,
                        !.trace = SetTaskStatusTrace(mcpUp, mcpOk, out)]
        /\ UNCHANGED <<stateJson, taskDir, backends>>

\* ------------------------------------------------------------------------
\* SpecResolve: getTaskDetails on every sampled list
\* ------------------------------------------------------------------------
\* The ids asked for.
QueryIds ==
    {<<"1">>, <<"1", "1">>, <<"2">>, <<"2", ".", "1">>, <<"2", ".", "1", "1">>,
     <<"2", ".", "1", ".", "1">>}

QuerySubIds == {<<"1">>, <<"1", "1">>, <<"1", ".", "1">>, <<"2", ".", "1">>}

InitResolve ==
    /\ tasksJson \in {File(TRUE, TRUE, LegacyJson(f)) : f \in PendingForests}
    /\ stateJson = NoState
    /\ taskDir = NoDir
    /\ Fresh
    /\ last = NoCall

\* One call per sampled list: the result depends on the list and the
\* arguments alone.
ResolveOne ==
    /\ last.op = "none"
    /\ \E taskId \in QueryIds, mcpUp \in BOOLEAN :
        \E reply \in ServerReplies(tasksJson, stateJson) :
            GetTaskDetails(taskId, <<>>, mcpUp, reply)

ResolveTwo ==
    /\ last.op = "none"
    /\ \E taskId \in {<<"1">>, <<"2">>}, subtaskId \in QuerySubIds, mcpUp \in BOOLEAN :
        \E reply \in ServerReplies(tasksJson, stateJson) :
            GetTaskDetails(taskId, subtaskId, mcpUp, reply)

NextResolve == ResolveOne \/ ResolveTwo

SpecResolve == InitResolve /\ [][NextResolve]_vars

\* ------------------------------------------------------------------------
\* Claims about getTaskDetails
\* ------------------------------------------------------------------------
MinOf(S) == CHOOSE x \in S : \A y \in S : x <= y

\* The positions of seq whose id has the text.
Positions(seq, text) == {i \in 1..Len(seq) : seq[i].id.s = text}

\* What follows the last dot of an id (lastDot) or its first dot.
SuffixOf(s, lastDot) == IF lastDot THEN AfterLastDot(s) ELSE AfterFirstDot(s)

\* The result the three strategies give on the subtasks of the first main
\* task with the id, the third strategy comparing the suffix of the
\* subtask's id after its last dot (lastDot) or after its first.
ThreeStrategies(tasks, taskId, subtaskId, lastDot) ==
    LET roots == Positions(tasks, taskId)
        subs  == tasks[MinOf(roots)].subtasks
        exact == Positions(subs, subtaskId)
        full  == Positions(subs, taskId \o <<".">> \o subtaskId)
        tail  == {i \in 1..Len(subs) :
                     HasDot(subs[i].id.s) /\ SuffixOf(subs[i].id.s, lastDot) = subtaskId}
    IN  IF roots = {} THEN NotFound
        ELSE IF exact # {} THEN Found(subs[MinOf(exact)])
        ELSE IF full # {} THEN Found(subs[MinOf(full)])
        ELSE IF tail # {} THEN Found(subs[MinOf(tail)])
        ELSE NotFound

TwoIdCall == last.op = "getTaskDetails" /\ last.subtaskId # <<>>
OneIdCall == last.op = "getTaskDetails" /\ last.subtaskId = <<>>

\* C8, as claimed: getTaskDetails(id, subId) returns the first match among a
\* subtask with id subId, one with id "{id}.{subId}", and one whose id has
\* subId after its LAST dot; null otherwise.
C8_AsClaimed ==
    TwoIdCall =>
        last.found = ThreeStrategies(last.tasks, last.taskId, last.subtaskId, TRUE)

\* C8, amended: getTaskDetails(id, subId) returns the first match among a
\* subtask of the first main task with id `id` whose id is subId, one whose
\* id is "{id}.{subId}", and one whose id has subId after its FIRST dot; it
\* returns null when there is no such main task, it has no subtasks, or none
\* of the three matches.
C8_ThreeStrategies ==
    TwoIdCall =>
        last.found = ThreeStrategies(last.tasks, last.taskId, last.subtaskId, FALSE)

\* C8's case: the third strategy alone found the subtask.
C8_Witness ==
    /\ TwoIdCall
    /\ last.found.found
    /\ last.found.task.id.s # last.subtaskId
    /\ last.found.task.id.s # last.taskId \o <<".">> \o last.subtaskId

\* The pairs of ids one character apart that must not match each other.
NearMisses ==
    {<<(<<"1">>), (<<"1", "1">>)>>, <<(<<"1", "1">>), (<<"1">>)>>,
     <<(<<"2", ".", "1">>), (<<"2", ".", "1", "1">>)>>,
     <<(<<"2", ".", "1", "1">>), (<<"2", ".", "1">>)>>}

\* C9: getTaskDetails(a) never returns a task whose id is the near miss of
\* a ("1" and "11", "2.1" and "2.11", either way), wherever the two tasks
\* are; getTaskDetails(a, b) never returns a subtask whose id is the near
\* miss of b or of "a.b"; and a main task whose id is a number is found by
\* the string of the same text.
C9_NoNearMiss ==
    /\ OneIdCall =>
        /\ \A pair \in NearMisses :
               last.taskId = pair[1] /\ last.found.found => last.found.task.id.s # pair[2]
        /\ \A i \in 1..Len(last.tasks) :
               last.tasks[i].id.num /\ last.tasks[i].id.s = last.taskId
                   => last.found.found /\ last.found.task.id.s = last.taskId
    /\ TwoIdCall /\ last.found.found =>
        \A pair \in NearMisses :
            pair[1] \in {last.subtaskId, last.taskId \o <<".">> \o last.subtaskId}
                => last.found.task.id.s # pair[2]

\* C9's case: "2.1" was asked for where subtasks "2.1" and "2.11" are both
\* there, "2.11" first, and "2.1" was returned.
C9_Witness ==
    /\ OneIdCall
    /\ last.taskId = <<"2", ".", "1">>
    /\ last.found.found
    /\ last.found.task.id.s = <<"2", ".", "1">>
    /\ \E i \in 1..Len(last.tasks) :
           /\ Len(last.tasks[i].subtasks) >= 2
           /\ last.tasks[i].subtasks[1].id.s = <<"2", ".", "1", "1">>
           /\ last.tasks[i].subtasks[2] = last.found.task

RECURSIVE TasksWithin(_)
\* The records of a list and of every list below it.
TasksWithin(tasks) ==
    {tasks[i] : i \in 1..Len(tasks)}
        \cup UNION {TasksWithin(tasks[i].subtasks) : i \in 1..Len(tasks)}

\* The subtasks at every nesting level.
Nested(tasks) == UNION {TasksWithin(tasks[i].subtasks) : i \in 1..Len(tasks)}

\* C10: for an id without a dot getTaskDetails returns the first main task
\* with that id whenever there is one, whatever the subtasks' ids; without
\* one it returns a subtask of some nesting level with that id, and null
\* only if no subtask of any level has it.
C10_RootThenNested ==
    OneIdCall /\ ~HasDot(last.taskId) =>
        LET roots == Positions(last.tasks, last.taskId)
        IN  IF roots # {} THEN last.found = Found(last.tasks[MinOf(roots)])
            ELSE /\ last.found.found <=>
                        \E n \in Nested(last.tasks) : n.id.s = last.taskId
                 /\ last.found.found =>
                        /\ last.found.task \in Nested(last.tasks)
                        /\ last.found.task.id.s = last.taskId

\* C10's case: no main task has the id and it was found two levels down.
C10_Witness ==
    /\ OneIdCall /\ ~HasDot(last.taskId)
    /\ last.found.found
    /\ \A i \in 1..Len(last.tasks) :
           /\ last.tasks[i].id.s # last.taskId
           /\ \A j \in 1..Len(last.tasks[i].subtasks) :
                  last.tasks[i].subtasks[j] # last.found.task

\* ------------------------------------------------------------------------
\* SpecStatus: setTaskStatus on every sampled list
\* ------------------------------------------------------------------------
\* The tasks of the second context of the sampled tagged documents.
FeatureTasks ==
    <<MkTask("F1", NumId(<<"1">>), "pending", 0,
             <<MkTask("F2", NumId(<<"1">>), "pending", 0, <<>>),
               MkTask("F3", NumId(<<"2">>), "done", 0, <<>>)>>),
      MkTask("F4", StrId(<<"1", "1">>), "in-progress", 0, <<>>)>>

TwoTags(masterTasks) ==
    [t \in {"master", "feature"} |->
        TagData(TRUE, IF t = "master" THEN masterTasks ELSE FeatureTasks, 0)]

\* A sampled list as a legacy document, or a shorter one as the master
\* context of a tagged document read with master or with feature as the
\* current tag.
InitStatus ==
    /\ \/ /\ tasksJson \in {File(TRUE, TRUE, LegacyJson(f)) : f \in PendingForests}
          /\ stateJson = NoState
       \/ /\ tasksJson \in {File(TRUE, TRUE, DirectTagJson(TwoTags(f))) :
                                f \in ForestsUpTo(MaxNodes - 1)}
          /\ stateJson \in {NoState, File(TRUE, TRUE, StateRecord("feature", FALSE))}
    /\ taskDir = NoDir
    /\ Fresh
    /\ last = NoCall

StatusArgs == {"completed", "in-progress"}

SetStatusOnce ==
    /\ last.op = "none"
    /\ \E taskId \in QueryIds, status \in StatusArgs, mcpUp \in BOOLEAN, mcpOk \in BOOLEAN :
          /\ mcpOk => mcpUp
          /\ SetTaskStatus(taskId, status, mcpUp, mcpOk)

NextStatus == SetStatusOnce

SpecStatus == InitStatus /\ [][NextStatus]_vars

\* ------------------------------------------------------------------------
\* Claims about setTaskStatus
\* ------------------------------------------------------------------------
\* The list of the active context of a document, as a file-backend mutation
\* extracts it.
ActiveTasks(tj) == extractTasksFromContainer(tj.json, stateJson).tasks

\* setTaskStatus ran on the file backend, on a document whose active context
\* could be extracted.
FileStatusCall ==
    /\ last.op = "setTaskStatus" /\ last.via = "file"
    /\ last.before.exists /\ last.before.parses
    /\ extractTasksFromContainer(last.before.json, stateJson).ok

\* What getTaskDetails(id) returns on the file backend for the document the
\* call found.
ResolvedBefore ==
    getTaskDetails(getTasks(FALSE, NoReply, last.before, stateJson, taskDir),
                   last.taskId, <<>>)

\* Every list of a document: the array itself, the top-level tasks, and the
\* tasks of every context.
AllRecords(json) ==
    TasksWithin(json.items) \cup TasksWithin(json.tasks)
        \cup UNION {TasksWithin(json.ctx[t].tasks) : t \in DOMAIN json.ctx}
        \cup UNION {TasksWithin(json.tags[t].tasks) : t \in DOMAIN json.tags}

RECURSIVE SameButStamps(_, _)
\* Two lists are alike in everything but the status and updated fields of
\* their records.
SameButStamps(a, b) ==
    /\ Len(a) = Len(b)
    /\ \A i \in 1..Len(a) :
          /\ a[i].title = b[i].title /\ a[i].id = b[i].id
          /\ a[i].parentId = b[i].parentId
          /\ SameButStamps(a[i].subtasks, b[i].subtasks)

\* The titles of the records whose status or updated field differs between
\* two documents of the same shape.
Restamped(before, after) ==
    {r.title : r \in {x \in AllRecords(after) :
        \A y \in AllRecords(before) :
            y.title = x.title => y.status # x.status \/ y.updated # x.updated}}

\* The stored form of a canonical status.
StoredStatus(status) ==
    CASE status = "todo" -> "pending"
      [] status = "completed" -> "done"
      [] OTHER -> status

\* C3, as claimed: setTaskStatus(id, s) on the file backend finds a task to
\* update exactly when getTaskDetails(id) returns one, and it is that task.
C3_AsClaimed ==
    FileStatusCall =>
        /\ last.ok <=> ResolvedBefore.found
        /\ last.ok => Restamped(last.before.json, tasksJson.json)
                          = {ResolvedBefore.task.title}

\* C4: when setTaskStatus(id, s) succeeds on the file backend and no main
\* task of the active context has the id, exactly one record of the whole
\* document differs afterwards; it is a subtask of the active context with
\* that id, its status is the stored form of s and its updated field the
\* time of the call; nothing else of the document changes.
C4_OnlyTheSubtask ==
    FileStatusCall /\ last.ok
        /\ (\A i \in 1..Len(ActiveTasks(last.before)) :
                ActiveTasks(last.before)[i].id.s # last.taskId)
    =>  /\ \E r \in Nested(ActiveTasks(tasksJson)) :
              /\ Restamped(last.before.json, tasksJson.json) = {r.title}
              /\ r.id.s = last.taskId
              /\ r.status = StoredStatus(last.status)
              /\ r.updated = last.now
              /\ \E o \in Nested(ActiveTasks(last.before)) :
                     o.title = r.title /\ o.updated < r.updated
        /\ SameButStamps(tasksJson.json.tasks, last.before.json.tasks)
        /\ SameButStamps(tasksJson.json.items, last.before.json.items)
        /\ DOMAIN tasksJson.json.ctx = DOMAIN last.before.json.ctx
        /\ \A t \in DOMAIN tasksJson.json.ctx :
              /\ SameButStamps(tasksJson.json.ctx[t].tasks, last.before.json.ctx[t].tasks)
              /\ tasksJson.json.ctx[t].meta = last.before.json.ctx[t].meta
              /\ tasksJson.json.ctx[t].hasTasks = last.before.json.ctx[t].hasTasks
        /\ tasksJson.json.tags = last.before.json.tags
        /\ tasksJson.json.isArray = last.before.json.isArray
        /\ tasksJson.json.hasTags = last.before.json.hasTags
        /\ tasksJson.json.hasTasks = last.before.json.hasTasks

\* C4's case: a subtask with a sibling and a parent was updated.
C4_Witness ==
    /\ FileStatusCall /\ last.ok
    /\ \A i \in 1..Len(ActiveTasks(last.before)) :
          ActiveTasks(last.before)[i].id.s # last.taskId
    /\ \E i \in 1..Len(ActiveTasks(tasksJson)) :
          LET subs == ActiveTasks(tasksJson)[i].subtasks
          IN  /\ Len(subs) >= 2
              /\ \E j \in 1..Len(subs) : subs[j].updated = last.now

\* C5: when no task or subtask of the active context has the id,
\* setTaskStatus fails on the file backend with the not-found error and
\* tasks.json is left as it was.
C5_NotFound ==
    FileStatusCall
        /\ (\A r \in TasksWithin(ActiveTasks(last.before)) : r.id.s # last.taskId)
    =>  /\ ~last.ok
        /\ last.err = "TaskNotFound"
        /\ tasksJson = last.before

\* C5's case: the id asked for is the near miss of an id the list has.
C5_Witness ==
    /\ FileStatusCall
    /\ ~last.ok /\ last.err = "TaskNotFound"
    /\ last.taskId = <<"1">>
    /\ \E r \in TasksWithin(ActiveTasks(last.before)) : r.id.s = <<"1", "1">>

\* ------------------------------------------------------------------------
\* SpecRead: getTasks on documents of every shape
\* ------------------------------------------------------------------------
\* Raw records as a document holds them: numeric ids, stored statuses, two
\* levels of subtasks.
MasterTasks ==
    <<MkTask("M1", NumId(<<"1">>), "pending", 0,
             <<MkTask("M2", NumId(<<"1">>), "done", 0,
                      <<MkTask("M3", NumId(<<"1">>), "in_progress", 0, <<>>)>>)>>),
      MkTask("M4", StrId(<<"2">>), "review", 0, <<>>)>>

SampleLists == {<<>>, MasterTasks, FeatureTasks}

TagNames == {"master", "feature"}

\* A context without a tasks array, or with one of the sampled lists.
TagDataSamples == {TagData(FALSE, <<>>, 0)} \cup {TagData(TRUE, l, 0) : l \in SampleLists}

\* Every map from some of the context names to a sampled context.
TagMaps == UNION {[D -> TagDataSamples] : D \in SUBSET TagNames}

\* A document of each of the four shapes; the object without any of the
\* probed keys is DirectTagJson of the empty map.
SampleJsons ==
    {ArrayJson(l) : l \in SampleLists} \cup {LegacyJson(l) : l \in SampleLists}
        \cup {DirectTagJson(m) : m \in TagMaps} \cup {NestedTagJson(m) : m \in TagMaps}

MissingFile == File(FALSE, FALSE, LegacyJson(<<>>))
CorruptFile == File(TRUE, FALSE, LegacyJson(<<>>))

TaskFile(parses, task) == [parses |-> parses, json |-> task]

\* The tasks directory: absent, empty, or holding three task files, the
\* second of which does not parse.
SampleDirs ==
    {NoDir, [exists |-> TRUE, files |-> <<>>],
     [exists |-> TRUE,
      files |-> <<TaskFile(TRUE, MkTask("D1", NumId(<<"1">>), "done", 0, <<>>)),
                  TaskFile(FALSE, MkTask("", StrId(<<>>), "", 0, <<>>)),
                  TaskFile(TRUE, MkTask("D3", NumId(<<"3">>), "", 0,
                      <<MkTask("D4", NumId(<<"1">>), "pending", 0, <<>>)>>))>>]}

SampleStates ==
    {NoState, File(TRUE, FALSE, StateRecord("", FALSE))}
        \cup {File(TRUE, TRUE, StateRecord(t, FALSE)) : t \in {"", "master", "feature", "ghost"}}

InitRead ==
    /\ tasksJson \in {MissingFile, CorruptFile} \cup {File(TRUE, TRUE, j) : j \in SampleJsons}
    /\ stateJson \in SampleStates
    /\ taskDir \in SampleDirs
    /\ Fresh
    /\ last = NoCall

ReadTasks ==
    \E mcpUp \in BOOLEAN : \E reply \in ServerReplies(tasksJson, stateJson) :
        GetTasks(mcpUp, reply)

ReadProgress ==
    \E mcpUp \in BOOLEAN : \E reply \in ServerReplies(tasksJson, stateJson) :
        GetTaskProgress(mcpUp, reply)

NextRead == ReadTasks \/ ReadProgress

SpecRead == InitRead /\ [][NextRead]_vars

\* ------------------------------------------------------------------------
\* Claims about getTasks
\* ------------------------------------------------------------------------
\* C2, as claimed: every task and subtask getTasks returns has a string id
\* and one of the seven canonical statuses, whichever backend supplied it.
C2_AsClaimed ==
    last.op = "getTasks" =>
        \A t \in TasksWithin(last.tasks) :
            ~t.id.num /\ t.status \in CanonicalStatuses

\* The titles of the records of a list, at every level.
TitlesWithin(tasks) == {t.title : t \in TasksWithin(tasks)}

\* The context map of a tagged document.
TagMapOf(json) == IF json.hasTags THEN json.tags ELSE json.ctx

\* The document is an object with context keys, at top level or under tags.
IsTaggedDocument(json) == ~json.isArray /\ (json.hasTags \/ DOMAIN json.ctx # {})

\* C7, as claimed: on a tagged document whose requested context is absent,
\* or has no tasks array or an empty one, getTasks returns the tasks of the
\* master context if it is there, and no task otherwise.
C7_AsClaimed ==
    /\ last.op = "getTasks" /\ last.via = "file"
    /\ tasksJson.exists /\ tasksJson.parses /\ IsTaggedDocument(tasksJson.json)
    /\ LET m == TagMapOf(tasksJson.json)
           req == StateFileTag(stateJson)
       IN  req \notin DOMAIN m \/ ~m[req].hasTasks \/ m[req].tasks = <<>>
    =>  TitlesWithin(last.tasks) =
            (IF "master" \in DOMAIN TagMapOf(tasksJson.json)
             THEN TitlesWithin(TagMapOf(tasksJson.json)["master"].tasks)
             ELSE {})

\* ------------------------------------------------------------------------
\* The subprocess backend
\* ------------------------------------------------------------------------
\* isTaskMasterInstalled then the command, as executeTaskMasterCLI runs
\* them: the version probe only while the cache is empty (ver is its
\* answer), then task-master directly or through npx (cliOk is how the
\* command ends).  The command runs in another program; what it does to the
\* files is outside this model, which leaves them as the store wrote them.
executeTaskMasterCLI(inst, ver, cliOk) ==
    LET cached == IF inst = "null" THEN (IF ver THEN "true" ELSE "false") ELSE inst
    IN  [installed |-> cached,
         trace |-> (IF inst = "null" THEN <<Ev("version", ver)>> ELSE <<>>)
                       \o <<Ev(IF cached = "true" THEN "cli" ELSE "npx", cliOk)>>,
         ok |-> cliOk]

\* What a routed call did: its outcome, the backend that ended it, its
\* trace, and the store's state after it.
Routed(ok, err, via, trace, tj, inst, wrote) ==
    [ok |-> ok, err |-> err, via |-> via, trace |-> trace, tj |-> tj,
     installed |-> inst, wrote |-> wrote]

ViaCli(trace, inst, ver, cliOk) ==
    LET run == executeTaskMasterCLI(inst, ver, cliOk)
    IN  Routed(run.ok, IF run.ok THEN "" ELSE "CliFailed", "cli",
               trace \o run.trace, tasksJson, run.installed, FALSE)

\* ------------------------------------------------------------------------
\* TaskMasterClient.addSubtask, the file backend (lines 980-1037)
\* ------------------------------------------------------------------------
RECURSIVE findParent(_, _)
\* The path (a sequence of indexes) to the first record, in preorder, with
\* the id; <<>> if there is none.
findParent(items, parentTaskId) ==
    IF items = <<>> THEN <<>>
    ELSE LET below == findParent(Head(items).subtasks, parentTaskId)
             rest  == findParent(Tail(items), parentTaskId)
         IN  IF SameId(Head(items).id, parentTaskId) THEN <<1>>
             ELSE IF below # <<>> THEN <<1>> \o below
             ELSE IF rest # <<>> THEN <<rest[1] + 1>> \o Tail(rest)
             ELSE <<>>

\* The digits of a small count: (n).toString().
CountText(n) == <<SubSeq(<<"0", "1", "2", "3", "4", "5", "6", "7", "8", "9">>, n + 1, n + 1)[1]>>

RECURSIVE PushSubtask(_, _, _, _)
\* parentTask.subtasks.push(newSubtask) at the end of the path.
PushSubtask(items, path, title, now) ==
    LET i == Head(path)
    IN  IF Len(path) = 1
        THEN [items EXCEPT ![i].subtasks =
                 Append(@, MkTask(title, StrId(CountText(Len(@) + 1)),
                                  normalizeStatus("pending"), now, <<>>))]
        ELSE [items EXCEPT ![i].subtasks = PushSubtask(@, Tail(path), title, now)]

addSubtask(tj, sf, parentTaskId, title, now) ==
    IF ~tj.exists THEN Outcome(FALSE, "TasksJsonNotFound", "file", tj)
    ELSE IF ~tj.parses THEN Outcome(FALSE, "SyntaxError", "file", tj)
    ELSE LET ex   == extractTasksFromContainer(tj.json, sf)
             path == findParent(ex.tasks, parentTaskId)
             new  == PushSubtask(ex.tasks, path, title, now)
             wr   == writeTasksToContainer(new, ex.isTaggedFormat, ex.currentTag,
                                           MutatedInPlace(tj.json, sf, new))
         IN  IF ~ex.ok THEN Outcome(FALSE, ex.err, "file", tj)
             ELSE IF path = <<>> THEN Outcome(FALSE, "ParentNotFound", "file", tj)
             ELSE IF ~wr.ok THEN Outcome(FALSE, "TypeError", "file", tj)
             ELSE Outcome(TRUE, "", "file", File(TRUE, TRUE, wr.json))

\* ------------------------------------------------------------------------
\* The routed operations (lines 1281-1412)
\* ------------------------------------------------------------------------
\* addTask(task, useCLI, tagContext)
addTask(useCLI, mcpUp, mcpOk, inst, ver, cliOk) ==
    IF useCLI THEN ViaCli(<<>>, inst, ver, cliOk)
    ELSE IF ~mcpUp
         THEN Routed(TRUE, "", "none", <<Ev("probe", FALSE)>>, tasksJson, inst, FALSE)
    ELSE IF mcpOk
         THEN Routed(TRUE, "", "mcp", <<Ev("probe", TRUE), Ev("mcp", TRUE)>>,
                     tasksJson, inst, FALSE)
    ELSE ViaCli(<<Ev("probe", TRUE), Ev("mcp", FALSE)>>, inst, ver, cliOk)

\* addSubtaskWithCLI(parentTaskId, subtask)
addSubtaskWithCLI(parentTaskId, title, mcpUp, inst, ver, cliOk) ==
    IF ~mcpUp THEN ViaCli(<<Ev("probe", FALSE)>>, inst, ver, cliOk)
    ELSE LET out == addSubtask(tasksJson, stateJson, parentTaskId, title, clock)
         IN  Routed(out.ok, out.err, "file", <<Ev("probe", TRUE), Ev("file", out.ok)>>,
                    out.tj, inst, out.ok)

\* setTaskStatusWithCLI(taskId, status, tagContext): with the probe
\* answering, setTaskStatus, which probes again.
setTaskStatusWithCLI(taskId, status, mcpUp, mcpUp2, mcpOk, inst, ver, cliOk) ==
    IF ~mcpUp THEN ViaCli(<<Ev("probe", FALSE)>>, inst, ver, cliOk)
    ELSE LET out == setTaskStatus(mcpUp2, mcpOk, tasksJson, stateJson, taskId, status, clock)
         IN  Routed(out.ok, out.err, out.via,
                    <<Ev("probe", TRUE)>> \o SetTaskStatusTrace(mcpUp2, mcpOk, out),
                    out.tj, inst, out.via = "file" /\ out.ok)

\* expandTaskWithCLI(taskId, force, tagContext)
expandTaskWithCLI(mcpUp, mcpOk, inst, ver, cliOk) ==
    IF ~mcpUp THEN ViaCli(<<Ev("probe", FALSE)>>, inst, ver, cliOk)
    ELSE Routed(mcpOk, IF mcpOk THEN "" ELSE "McpExpandFailed", "mcp",
                <<Ev("probe", TRUE), Ev("mcp", mcpOk)>>, tasksJson, inst, FALSE)

\* The step of a routed call: the files, the cache and the clock after it.
RoutedStep(op, taskId, status, tag, mcpUp, out) ==
    /\ clock < MaxClock
    /\ tasksJson' = out.tj
    /\ installed' = out.installed
    /\ probes' = probes \o VersionAnswers(out.trace)
    /\ clock' = IF out.wrote THEN clock + 1 ELSE clock
    /\ last' = [NoCall EXCEPT !.op = op, !.taskId = taskId, !.status = status,
                    !.tag = tag, !.mcpUp = mcpUp, !.now = clock, !.ok = out.ok,
                    !.err = out.err, !.via = out.via, !.trace = out.trace]
    /\ UNCHANGED <<stateJson, taskDir, tagState, mcpTag, inflight>>

\* tagContext || this.tagManager.getCurrentTag(); "" is an absent tagContext.
TargetTag(tagContext) == IF tagContext = "" THEN tagState.currentTag ELSE tagContext

AddTask(useCLI, tagContext, mcpUp, mcpOk, ver, cliOk) ==
    RoutedStep("addTask", <<>>, "", TargetTag(tagContext), mcpUp,
               addTask(useCLI, mcpUp, mcpOk, installed, ver, cliOk))

NewTitles == <<"N1", "N2", "N3", "N4", "N5">>

AddSubtaskWithCLI(parentTaskId, mcpUp, ver, cliOk) ==
    RoutedStep("addSubtaskWithCLI", parentTaskId, "", tagState.currentTag, mcpUp,
               addSubtaskWithCLI(parentTaskId, NewTitles[clock], mcpUp, installed, ver, cliOk))

SetTaskStatusWithCLI(taskId, status, tagContext, mcpUp, mcpUp2, mcpOk, ver, cliOk) ==
    RoutedStep("setTaskStatusWithCLI", taskId, status, TargetTag(tagContext), mcpUp,
               setTaskStatusWithCLI(taskId, status, mcpUp, mcpUp2, mcpOk, installed, ver, cliOk))

ExpandTaskWithCLI(taskId, tagContext, mcpUp, mcpOk, ver, cliOk) ==
    RoutedStep("expandTaskWithCLI", taskId, "", TargetTag(tagContext), mcpUp,
               expandTaskWithCLI(mcpUp, mcpOk, installed, ver, cliOk))

\* ------------------------------------------------------------------------
\* Tags
\* ------------------------------------------------------------------------
\* The characters of the tag names the model uses.
TagText(name) ==
    CASE name = "master"   -> <<"m", "a", "s", "t", "e", "r">>
      [] name = "feature"  -> <<"f", "e", "a", "t", "u", "r", "e">>
      [] name = "bad name" -> <<"b", "a", "d", " ", "n", "a", "m", "e">>
      [] OTHER             -> <<>>

\* [a-zA-Z0-9_-]
TagChars ==
    {"a", "b", "c", "d", "e", "f", "g", "h", "i", "j", "k", "l", "m", "n", "o", "p", "q",
     "r", "s", "t", "u", "v", "w", "x", "y", "z", "A", "B", "C", "D", "E", "F", "G", "H",
     "I", "J", "K", "L", "M", "N", "O", "P", "Q", "R", "S", "T", "U", "V", "W", "X", "Y",
     "Z", "0", "1", "2", "3", "4", "5", "6", "7", "8", "9", "_", "-"}

MaxTagLength == 50

\* TagManager.validateTagName
validateTagName(name) ==
    /\ \A i \in 1..Len(TagText(name)) : TagText(name)[i] \in TagChars
    /\ Len(TagText(name)) > 0
    /\ Len(TagText(name)) <= MaxTagLength

\* TagManager.setCurrentTag: the state after it and whether it threw; the
\* state is saved to state.json when it did not.
setCurrentTag(state, name) ==
    IF validateTagName(name)
    THEN [ok |-> TRUE, state |-> [state EXCEPT !.currentTag = name]]
    ELSE [ok |-> FALSE, state |-> state]

\* TagManager.getAvailableTags: the top-level keys of a direct-tag
\* document, the keys under tags of a nested one, else master alone.
getAvailableTags(tj) ==
    IF ~tj.exists \/ ~tj.parses \/ tj.json.isArray THEN {"master"}
    ELSE IF tj.json.hasTags THEN DOMAIN tj.json.tags
    ELSE IF "master" \in DOMAIN tj.json.ctx
         THEN DOMAIN tj.json.ctx \cup (IF tj.json.hasTasks THEN {"tasks"} ELSE {})
    ELSE {"master"}

\* The step of a tag operation.
TagStep(op, name, ok, err, trace, state, saved, mtag, inst) ==
    /\ tagState' = state
    /\ stateJson' = IF saved THEN File(TRUE, TRUE, state) ELSE stateJson
    /\ mcpTag' = mtag
    /\ installed' = inst
    /\ probes' = probes \o VersionAnswers(trace)
    /\ last' = [NoCall EXCEPT !.op = op, !.tag = name, !.ok = ok, !.err = err,
                    !.trace = trace, !.via = IF trace = <<>> THEN "" ELSE trace[Len(trace)].backend]
    /\ UNCHANGED <<tasksJson, taskDir, inflight, clock>>

\* TaskMasterClient.switchTag: use_tag on the server if the probe answers,
\* then the local tag state.
SwitchTag(name, mcpUp, mcpOk) ==
    LET set   == setCurrentTag(tagState, name)
        trace == <<Ev("probe", mcpUp)>> \o (IF mcpUp THEN <<Ev("mcp", mcpOk)>> ELSE <<>>)
    IN  IF mcpUp /\ ~mcpOk
        THEN TagStep("switchTag", name, FALSE, "McpFailed", trace, tagState, FALSE,
                     mcpTag, installed)
        ELSE TagStep("switchTag", name, set.ok, IF set.ok THEN "" ELSE "InvalidTagName",
                     trace, set.state, set.ok, IF mcpUp THEN name ELSE mcpTag, installed)

\* TaskMasterClient.createTag: the add-tag command.
CreateTag(name, ver, cliOk) ==
    LET run == executeTaskMasterCLI(installed, ver, cliOk)
    IN  TagStep("createTag", name, run.ok, IF run.ok THEN "" ELSE "CliFailed",
                run.trace, tagState, FALSE, mcpTag, run.installed)

\* TaskMasterClient.deleteTag: refused for master; else the delete-tag
\* command and, if the tag deleted was the current one, master is made
\* current.
DeleteTag(name, ver, cliOk) ==
    LET run == executeTaskMasterCLI(installed, ver, cliOk)
        set == setCurrentTag(tagState, "master")
    IN  IF name = "master"
        THEN TagStep("deleteTag", name, FALSE, "CannotDeleteMaster", <<>>, tagState,
                     FALSE, mcpTag, installed)
        ELSE IF ~run.ok
        THEN TagStep("deleteTag", name, FALSE, "CliFailed", run.trace, tagState, FALSE,
                     mcpTag, run.installed)
        ELSE IF tagState.currentTag = name
        THEN TagStep("deleteTag", name, set.ok, "", run.trace, set.state, set.ok,
                     mcpTag, run.installed)
        ELSE TagStep("deleteTag", name, TRUE, "", run.trace, tagState, FALSE, mcpTag,
                     run.installed)

\* TagManager.deleteTag: every path throws.
TagManagerDeleteTag(name) ==
    TagStep("TagManager.deleteTag", name, FALSE,
            IF name = "master" THEN "CannotDeleteMaster"
            ELSE IF name \notin getAvailableTags(tasksJson) THEN "TagDoesNotExist"
            ELSE IF tagState.currentTag = name THEN "CannotDeleteActiveTag"
            ELSE "NotImplemented",
            <<>>, tagState, FALSE, mcpTag, installed)

\* ------------------------------------------------------------------------
\* Spec: the store in use
\* ------------------------------------------------------------------------
TagArgs == {"master", "feature", "bad name"}
TaskArgs == {<<"1">>, <<"9">>}

Init ==
    /\ tasksJson \in {File(TRUE, TRUE, DirectTagJson(TwoTags(MasterTasks))),
                      File(TRUE, TRUE, LegacyJson(MasterTasks))}
    /\ stateJson \in {File(TRUE, TRUE, StateRecord(t, FALSE)) : t \in {"master", "feature"}}
    /\ taskDir = NoDir
    /\ Fresh
    /\ last = NoCall

\* The answers the environment can give that a call can tell apart: a tool
\* call ends well only if the probe answered, and the version probe has an
\* answer only while the cache is empty.
McpAnswers(mcpUp, mcpOk) == mcpOk => mcpUp
CliAnswers(used, ver, cliOk) ==
    /\ ~used => ~ver /\ ~cliOk
    /\ installed # "null" => ~ver

Read ==
    \E mcpUp \in BOOLEAN : \E reply \in ServerReplies(tasksJson, stateJson) :
        /\ McpAnswers(mcpUp, reply.ok)
        /\ GetTasks(mcpUp, reply)

SetStatus ==
    \E taskId \in TaskArgs, mcpUp \in BOOLEAN, mcpOk \in BOOLEAN :
        /\ McpAnswers(mcpUp, mcpOk)
        /\ SetTaskStatus(taskId, "completed", mcpUp, mcpOk)

SetStatusRouted ==
    \E taskId \in TaskArgs, mcpUp \in BOOLEAN, mcpUp2 \in BOOLEAN, mcpOk \in BOOLEAN,
       ver \in BOOLEAN, cliOk \in BOOLEAN :
        /\ mcpUp2 => mcpUp
        /\ McpAnswers(mcpUp2, mcpOk)
        /\ CliAnswers(~mcpUp, ver, cliOk)
        /\ SetTaskStatusWithCLI(taskId, "completed", "", mcpUp, mcpUp2, mcpOk, ver, cliOk)

Add ==
    \E useCLI \in BOOLEAN, tagContext \in {"", "feature"},
       mcpUp \in BOOLEAN, mcpOk \in BOOLEAN, ver \in BOOLEAN, cliOk \in BOOLEAN :
        /\ useCLI => ~mcpUp
        /\ McpAnswers(mcpUp, mcpOk)
        /\ CliAnswers(useCLI \/ (mcpUp /\ ~mcpOk), ver, cliOk)
        /\ AddTask(useCLI, tagContext, mcpUp, mcpOk, ver, cliOk)

AddSub ==
    \E parentTaskId \in TaskArgs, mcpUp \in BOOLEAN, ver \in BOOLEAN, cliOk \in BOOLEAN :
        /\ CliAnswers(~mcpUp, ver, cliOk)
        /\ AddSubtaskWithCLI(parentTaskId, mcpUp, ver, cliOk)

Expand ==
    \E mcpUp \in BOOLEAN, mcpOk \in BOOLEAN, ver \in BOOLEAN, cliOk \in BOOLEAN :
        /\ McpAnswers(mcpUp, mcpOk)
        /\ CliAnswers(~mcpUp, ver, cliOk)
        /\ ExpandTaskWithCLI(<<"1">>, "", mcpUp, mcpOk, ver, cliOk)

Switch ==
    \E name \in TagArgs, mcpUp \in BOOLEAN, mcpOk \in BOOLEAN :
        /\ McpAnswers(mcpUp, mcpOk)
        /\ SwitchTag(name, mcpUp, mcpOk)

Create ==
    \E name \in TagArgs, ver \in BOOLEAN, cliOk \in BOOLEAN :
        /\ CliAnswers(TRUE, ver, cliOk)
        /\ CreateTag(name, ver, cliOk)

Delete ==
    \E name \in TagArgs, ver \in BOOLEAN, cliOk \in BOOLEAN :
        /\ CliAnswers(name # "master", ver, cliOk)
        /\ DeleteTag(name, ver, cliOk)

DeleteInManager == \E name \in TagArgs : TagManagerDeleteTag(name)

Next ==
    \/ Read \/ SetStatus \/ SetStatusRouted \/ Add \/ AddSub \/ Expand
    \/ Switch \/ Create \/ Delete \/ DeleteInManager

Spec == Init /\ [][Next]_vars

\* ------------------------------------------------------------------------
\* Claims about the router and the tags
\* ------------------------------------------------------------------------
\* The backends a trace attempted, in order: the protocol client once per
\* probe (failed when the probe did not answer, else as its tool call
\* ended), the command line (directly or through npx), the files.
RECURSIVE Attempts(_)
Attempts(trace) ==
    IF trace = <<>> THEN <<>>
    ELSE LET e == Head(trace)
         IN  (CASE e.backend = "probe" /\ ~e.ok -> <<Ev("mcp", FALSE)>>
                [] e.backend = "probe" /\ e.ok -> <<>>
                [] e.backend = "version" -> <<>>
                [] e.backend = "npx" -> <<Ev("cli", e.ok)>>
                [] OTHER -> <<e>>) \o Attempts(Tail(trace))

CliCapable == {"addTask", "addSubtaskWithCLI", "setTaskStatusWithCLI", "expandTaskWithCLI"}

\* C1, as claimed: every routed operation attempts the protocol client
\* first; when that is unavailable or fails, the command line next if the
\* operation is add-task, add-subtask, set-status or expand, else the files;
\* and nothing is attempted after a success.
C1_AsClaimed ==
    last.op \in CliCapable \cup {"getTasks"} =>
        LET a == Attempts(last.trace)
        IN  /\ Len(a) >= 1
            /\ a[1].backend = "mcp"
            /\ a[1].ok => Len(a) = 1
            /\ ~a[1].ok =>
                  /\ Len(a) = 2
                  /\ a[2].backend = (IF last.op \in CliCapable THEN "cli" ELSE "file")

\* C6, as claimed: deleting master or the current tag fails, runs no delete
\* command, and leaves the current tag as it was.
C6_AsClaimed ==
    /\ last.op \in {"deleteTag", "TagManager.deleteTag"}
    /\ last.tag \in {"master", last.tagBefore}
    =>  /\ ~last.ok
        /\ \A i \in 1..Len(last.trace) : last.trace[i].backend \notin {"cli", "npx"}
        /\ tagState.currentTag = last.tagBefore

\* ------------------------------------------------------------------------
\* TaskMasterClient.getNextTask
\* ------------------------------------------------------------------------
\* A record with the two fields getNextTask reads besides id and status.  A
\* missing priority is the empty string; a missing dependencies property and
\* an empty array are both <<>> (`task.dependencies && length > 0`).
Planned(title, id, status, priority, dependencies) ==
    [title |-> title, id |-> id, status |-> status, updated |-> 0,
     subtasks |-> <<>>, parentId |-> <<>>,
     priority |-> priority, dependencies |-> dependencies]

\* tasks.find(t => t.id.toString() === depId.toString())
FindDependency(tasks, depId) == FindTask(tasks, IdFlags(tasks, IdText(depId)))

\* Mutant of isAvailable: the dependencies are not looked at.
IgnoreDependencies(tasks, task) == task.status # "completed"

\* The callback of tasks.filter (lines 724-741).
isAvailable(tasks, task) ==
    /\ task.status # "completed"
    /\ ~\E i \in 1..Len(task.dependencies) :
           LET dep == FindDependency(tasks, task.dependencies[i])
           IN  ~dep.found \/ dep.task.status # "completed"

availableTasks(tasks) == SelectSeq(tasks, LAMBDA t : isAvailable(tasks, t))

\* priorityOrder[priority] || 0
priorityOrder(priority) ==
    CASE priority = "critical" -> 4
      [] priority = "high" -> 3
      [] priority = "medium" -> 2
      [] priority = "low" -> 1
      [] OTHER -> 0

\* Mutant of ComparePriority: the lowest priority comes first.
CompareAscending(a, b) == priorityOrder(a.priority) - priorityOrder(b.priority)

\* The comparator of availableTasks.sort: negative when a goes before b.
ComparePriority(a, b) == priorityOrder(b.priority) - priorityOrder(a.priority)

RECURSIVE SortByPriority(_)
\* Array.prototype.sort with that comparator.  The sort is stable: an element
\* goes behind every earlier element the comparator does not put after it.
SortByPriority(seq) ==
    IF seq = <<>> THEN <<>>
    ELSE LET front  == SortByPriority(SubSeq(seq, 1, Len(seq) - 1))
             t      == seq[Len(seq)]
             before == SelectSeq(front, LAMBDA x : ComparePriority(x, t) <= 0)
             after  == SelectSeq(front, LAMBDA x : ComparePriority(x, t) > 0)
         IN  before \o <<t>> \o after

\* availableTasks[0] || null on the list getTasks returned.
getNextTask(tasks) ==
    LET sorted == SortByPriority(availableTasks(tasks))
    IN  IF sorted = <<>> THEN NotFound ELSE Found(sorted[1])

\* getNextTask(): getTasks() first, then the filter and the sort.
GetNextTask(mcpUp, reply) ==
    LET tasks == getTasks(mcpUp, reply, tasksJson, stateJson, taskDir)
    IN  /\ last' = [NoCall EXCEPT !.op = "getNextTask", !.mcpUp = mcpUp,
                        !.via = IF mcpUp /\ reply.ok THEN "mcp" ELSE "file",
                        !.tasks = tasks,
                        !.found = getNextTask(tasks),
                        !.trace = GetTasksTrace(mcpUp, reply)]
        /\ UNCHANGED <<files, backends, clock>>

\* ------------------------------------------------------------------------
\* SpecNext: getNextTask on flat lists with priorities and dependencies
\* ------------------------------------------------------------------------
PlanDigits == <<"1", "2", "3", "4", "5", "6">>

Priorities == {"", "low", "medium", "high", "critical"}

\* What a sampled record may depend on: nothing, the first record (by the
\* number 1), or the third (by the string "3"), whether the list has them
\* or not.
PlanDependencies == {<<>>, <<NumId(<<"1">>)>>, <<StrId(<<"3">>)>>}

\* The records position i of a sampled list may hold, its id the number i:
\* a pending one of any priority and dependencies, or a done one without
\* dependencies of the lowest or the highest priority.
PlanRecords(i) ==
    {Planned(Titles[i], NumId(<<PlanDigits[i]>>), "pending", p, d) :
        p \in Priorities, d \in PlanDependencies}
    \cup {Planned(Titles[i], NumId(<<PlanDigits[i]>>), "done", p, <<>>) :
        p \in {"", "critical"}}

RECURSIVE PlanListsOf(_)
\* The lists of n sampled records.
PlanListsOf(n) ==
    IF n = 0 THEN {<<>>}
    ELSE {Append(l, r) : l \in PlanListsOf(n - 1), r \in PlanRecords(n)}

PlanLists == UNION {PlanListsOf(n) : n \in 0..MaxNodes}

InitNext ==
    /\ tasksJson \in {File(TRUE, TRUE, LegacyJson(l)) : l \in PlanLists}
    /\ stateJson = NoState
    /\ taskDir = NoDir
    /\ Fresh
    /\ last = NoCall

NextOnce ==
    \E mcpUp \in BOOLEAN : \E reply \in ServerReplies(tasksJson, stateJson) :
        /\ reply.ok => mcpUp /\ reply.envelope
        /\ GetNextTask(mcpUp, reply)

NextNext == NextOnce

SpecNext == InitNext /\ [][NextNext]_vars

\* ------------------------------------------------------------------------
\* Claims on getNextTask
\* ------------------------------------------------------------------------
NextCall == last.op = "getNextTask"

\* A dependency resolves to the first listed task with its stringified id.
ResolvesCompleted(tasks, depId) ==
    \E j \in 1..Len(tasks) :
        /\ IdText(tasks[j].id) = IdText(depId)
        /\ \A k \in 1..(j - 1) : IdText(tasks[k].id) # IdText(depId)
        /\ tasks[j].status = "completed"

Eligible(tasks, t) ==
    /\ t.status # "completed"
    /\ \A i \in 1..Len(t.dependencies) : ResolvesCompleted(tasks, t.dependencies[i])

PriorityRank(p) ==
    LET order == <<"", "low", "medium", "high", "critical">>
    IN  CHOOSE r \in 1..Len(order) : order[r] = p

ProgressCall == last.op = "getTaskProgress"

\* How many records of a set have a canonical status; every record for
\* "total".
Census(records, status) ==
    Cardinality({t \in records : status = "total" \/ normalizeStatus(t.status) = status})

CensusTally(records) ==
    Tally(Census(records, "total"), Census(records, "completed"),
          Census(records, "in-progress"), Census(records, "todo"),
          Census(records, "blocked"))

\* C13: getTaskProgress tallies mainTasks over the root tasks only and
\* allItems over the roots and the subtasks of every depth, each record
\* counted once under its canonical status, and the legacy top-level fields
\* equal the fields of allItems.
C13_DualCount ==
    ProgressCall =>
        /\ last.progress.mainTasks
               = CensusTally({last.tasks[i] : i \in 1..Len(last.tasks)})
        /\ last.progress.allItems = CensusTally(TasksWithin(last.tasks))
        /\ Tally(last.progress.total, last.progress.completed,
                 last.progress.inProgress, last.progress.todo,
                 last.progress.blocked) = last.progress.allItems

\* A call on a list with subtasks of subtasks: the in-progress record is two
\* levels down, so allItems counts it and mainTasks does not.
C13_Witness ==
    /\ ProgressCall
    /\ \E i \in 1..Len(last.tasks) : \E j \in 1..Len(last.tasks[i].subtasks) :
           last.tasks[i].subtasks[j].subtasks # <<>>
    /\ last.progress.allItems.inProgress = 1
    /\ last.progress.mainTasks.inProgress = 0
    /\ last.progress.allItems.total > last.progress.mainTasks.total
    /\ last.progress.mainTasks.total = 2

\* ------------------------------------------------------------------------
\* SpecHierarchy: processTaskHierarchy on flat and nested lists
\* ------------------------------------------------------------------------
\* The ids of the sampled flat lists: roots, subtasks of two depths, one
\* whose parent 3 is never there, and 10, which sorts after 2 by value.
HierarchyIds ==
    {<<"1">>, <<"2">>, <<"1", ".", "1">>, <<"1", ".", "2">>,
     <<"1", ".", "1", ".", "1">>, <<"3", ".", "1">>, <<"1", "0">>}

RECURSIVE FlatListsOf(_)
\* The flat lists of n records as getTasks hands them to
\* processTaskHierarchy: string ids, canonical statuses; ids may repeat and
\* come in any order.
FlatListsOf(n) ==
    IF n = 0 THEN {<<>>}
    ELSE {Append(l, MkTask(Titles[n], StrId(id), "todo", 0, <<>>)) :
             l \in FlatListsOf(n - 1), id \in HierarchyIds}

HierarchyInputs == UNION {FlatListsOf(n) : n \in 0..MaxNodes} \cup PendingForests

InitHierarchy ==
    /\ tasksJson \in {File(TRUE, TRUE, LegacyJson(l)) : l \in HierarchyInputs}
    /\ stateJson = NoState
    /\ taskDir = NoDir
    /\ Fresh
    /\ last = NoCall

\* processTaskHierarchy(tasks) on the list the document holds.
BuildHierarchy ==
    /\ last.op = "none"
    /\ last' = [NoCall EXCEPT !.op = "processTaskHierarchy",
                    !.tasks = processTaskHierarchy(tasksJson.json.tasks)]
    /\ UNCHANGED <<files, backends, clock>>

NextHierarchy == BuildHierarchy

SpecHierarchy == InitHierarchy /\ [][NextHierarchy]_vars

\* ------------------------------------------------------------------------
\* Claims on processTaskHierarchy
\* ------------------------------------------------------------------------
HierarchyCall == last.op = "processTaskHierarchy"

\* C14: processTaskHierarchy applied to its own output returns that output.
C14_Idempotent ==
    HierarchyCall => processTaskHierarchy(last.tasks) = last.tasks

\* A call whose output is processed in full when it is fed back: it has a
\* dotted id, no subtasks, and is not the list the call was given, the ids
\* having been reordered or a repeated id dropped.
C14_Witness ==
    /\ HierarchyCall
    /\ \E i \in 1..Len(last.tasks) : HasDot(IdText(last.tasks[i].id))
    /\ \A i \in 1..Len(last.tasks) : last.tasks[i].subtasks = <<>>
    /\ last.tasks # tasksJson.json.tasks

\* ------------------------------------------------------------------------
\* SpecCodec: normalizeStatus, denormalizeStatus, normalizeStatus again
\* ------------------------------------------------------------------------
\* Status strings a document may hold: the keys of the decode table, other
\* spellings, the empty string, and names every object inherits.
ExternalStatuses ==
    NormalizeKeys \cup ObjectPrototypeKeys
        \cup {"", "Done", "DONE", "Pending", "in progress", "In-Progress", "wip",
              "open", "closed", "complete", "finished", "started", "canceled",
              "archived", "unknown"}

InitCodec ==
    /\ tasksJson \in {File(TRUE, TRUE,
                          LegacyJson(<<MkTask("T1", NumId(<<"1">>), x, 0, <<>>)>>)) :
                         x \in ExternalStatuses}
    /\ stateJson = NoState
    /\ taskDir = NoDir
    /\ Fresh
    /\ last = NoCall

\* The status string of the document's task.
ExternalStatus == tasksJson.json.tasks[1].status

\* normalizeStatus(x) on the document's status.  In the calls of this
\* specification `trace` lists the values the codec returned so far.
Decode ==
    /\ last.op = "none"
    /\ last' = [NoCall EXCEPT !.op = "normalizeStatus",
                    !.status = normalizeStatus(ExternalStatus),
                    !.trace = <<normalizeStatus(ExternalStatus)>>]
    /\ UNCHANGED <<files, backends, clock>>

\* denormalizeStatus on the value normalizeStatus returned.
Encode ==
    /\ last.op = "normalizeStatus"
    /\ Len(last.trace) = 1
    /\ last' = [last EXCEPT !.op = "denormalizeStatus",
                    !.status = denormalizeStatus(last.status),
                    !.trace = Append(last.trace, denormalizeStatus(last.status))]
    /\ UNCHANGED <<files, backends, clock>>

\* normalizeStatus on the value denormalizeStatus returned.
DecodeAgain ==
    /\ last.op = "denormalizeStatus"
    /\ last' = [last EXCEPT !.op = "normalizeStatus",
                    !.status = normalizeStatus(last.status),
                    !.trace = Append(last.trace, normalizeStatus(last.status))]
    /\ UNCHANGED <<files, backends, clock>>

NextCodec == Decode \/ Encode \/ DecodeAgain

SpecCodec == InitCodec /\ [][NextCodec]_vars

\* ------------------------------------------------------------------------
\* Claims on the status codec
\* ------------------------------------------------------------------------
\* C15, as claimed: normalizeStatus maps every status string to one of the
\* seven canonical states, a string that is not in the decode table to
\* todo, and normalizeStatus(denormalizeStatus(normalizeStatus(x))) equals
\* normalizeStatus(x).
C15_AsClaimed ==
    /\ Len(last.trace) >= 1 =>
           /\ last.trace[1] \in CanonicalStatuses
           /\ ExternalStatus \notin NormalizeKeys => last.trace[1] = "todo"
    /\ Len(last.trace) = 3 => last.trace[3] = last.trace[1]

\* ------------------------------------------------------------------------
\* Claims on the document shapes
\* ------------------------------------------------------------------------
\* The document holds a task list for the requested context: it is an array
\* or a legacy object, or its context map has the context with a tasks
\* array.
HoldsRequested(json, tag) ==
    \/ json.isArray
    \/ IsTaggedDocument(json) /\ HasTaskArray(TagMapOf(json), tag)
    \/ ~IsTaggedDocument(json) /\ json.hasTasks

\* That task list.
RequestedTasks(json, tag) ==
    IF json.isArray THEN json.items
    ELSE IF IsTaggedDocument(json) THEN TagMapOf(json)[tag].tasks
    ELSE json.tasks

\* C16, as claimed: whatever its shape, a document that holds a task list
\* for the requested context is read as the direct array of that list is.
C16_AsClaimed ==
    (/\ last.op = "getTasks" /\ last.via = "file"
     /\ tasksJson.exists /\ tasksJson.parses
     /\ HoldsRequested(tasksJson.json, StateFileTag(stateJson)))
        => last.tasks
               = getTasks(FALSE, NoReply,
                     File(TRUE, TRUE,
                          ArrayJson(RequestedTasks(tasksJson.json, StateFileTag(stateJson)))),
                     stateJson, taskDir)

\* ------------------------------------------------------------------------
\* TagManager: the state record in memory and in state.json
\* ------------------------------------------------------------------------
\* How fs.writeFileSync can end: the file is written; it throws before
\* anything is written (the file cannot be opened); it throws after the
\* file was truncated or written in part.
WriteOutcomes == {"written", "refused", "partial"}

\* state.json after fs.writeFileSync(stateFilePath, JSON.stringify(state)).
writeFileSync(sf, state, write) ==
    CASE write = "written" -> File(TRUE, TRUE, state)
      [] write = "refused" -> sf
      [] write = "partial" -> File(TRUE, FALSE, StateRecord("", FALSE))

\* TagManager.saveState, called with this.currentState already mutated in
\* place: the write, then `this.currentState = state`; an error of the
\* write is rethrown, and the mutated object stays the state in memory.
saveState(state, sf, write) ==
    [ok |-> write = "written", state |-> state, file |-> writeFileSync(sf, state, write)]

\* The state after markMigrationCompleted's two assignments.
Migrated(state, now) ==
    [currentTag |-> state.currentTag, migrationCompleted |-> TRUE,
     lastMigrationDate |-> now]

\* The step of a TagManager mutation: `out` is what saveState returned.
StateStep(op, name, out, err) ==
    /\ tagState' = out.state
    /\ stateJson' = out.file
    /\ last' = [NoCall EXCEPT !.op = op, !.tag = name, !.ok = out.ok, !.err = err,
                    !.via = "file", !.trace = <<Ev("file", out.ok)>>]
    /\ UNCHANGED <<tasksJson, taskDir, mcpTag, installed, inflight, probes, clock>>

\* TagManager.setCurrentTag(tagName): an invalid name throws before
\* anything is touched; else the field is assigned and the state saved.
TagManagerSetCurrentTag(name, write) ==
    IF ~validateTagName(name)
    THEN /\ last' = [NoCall EXCEPT !.op = "setCurrentTag", !.tag = name,
                         !.ok = FALSE, !.err = "Invalid tag name"]
         /\ UNCHANGED <<files, backends, clock>>
    ELSE StateStep("setCurrentTag", name,
                   saveState(setCurrentTag(tagState, name).state, stateJson, write),
                   IF write = "written" THEN "" ELSE "write failed")

\* TagManager.markMigrationCompleted().
MarkMigrationCompleted(write) ==
    StateStep("markMigrationCompleted", "",
              saveState(Migrated(tagState, clock), stateJson, write),
              IF write = "written" THEN "" ELSE "write failed")

\* ------------------------------------------------------------------------
\* SpecState: a TagManager and its state.json
\* ------------------------------------------------------------------------
\* A TagManager just constructed: state.json was there and was loaded, or
\* the default state was saved (a constructor whose save fails throws, and
\* there is no manager).
InitState ==
    /\ tasksJson = MissingFile
    /\ stateJson \in {File(TRUE, TRUE, StateRecord(t, m)) :
                         t \in {"", "master", "feature"}, m \in BOOLEAN}
    /\ taskDir = NoDir
    /\ Fresh
    /\ last = NoCall

SetCurrent ==
    \E name \in TagArgs, write \in WriteOutcomes :
        /\ ~validateTagName(name) => write = "written"
        /\ TagManagerSetCurrentTag(name, write)

MarkMigrated == \E write \in WriteOutcomes : MarkMigrationCompleted(write)

NextState == SetCurrent \/ MarkMigrated

SpecState == InitState /\ [][NextState]_vars

\* ------------------------------------------------------------------------
\* Claims on the state record
\* ------------------------------------------------------------------------
StateCall == last.op \in {"setCurrentTag", "markMigrationCompleted"}

\* state.json can be read and holds what the manager has in memory, a
\* record without currentTag standing for master.
StateAgrees ==
    /\ stateJson.exists /\ stateJson.parses
    /\ StateFileTag(stateJson) = tagState.currentTag
    /\ stateJson.json.migrationCompleted = tagState.migrationCompleted

\* C17, as claimed: when setCurrentTag or markMigrationCompleted has
\* completed, with or without an error, the state in memory and state.json
\* agree and state.json is not partially written.
C17_AsClaimed == StateCall => StateAgrees

\* ------------------------------------------------------------------------
\* TaskMasterClient.updateSubtask (lines 1045-1132)
\* ------------------------------------------------------------------------
\* The outcome of a file operation: tasks.json and the tasks directory
\* after it.
FileOutcome(ok, err, tj, dir) ==
    [ok |-> ok, err |-> err, via |-> "file", tj |-> tj, dir |-> dir]

\* The callback st => st.id.toString() === fullSubtaskId ||
\* st.id.toString() === subtaskId on every subtask of the parent.
SubtaskFlags(subs, parentTaskId, subtaskId) ==
    LET fullSubtaskId == IF HasDot(subtaskId) THEN subtaskId
                         ELSE DotJoin(parentTaskId, subtaskId)
    IN  [i \in 1..Len(subs) |->
            SameId(subs[i].id, fullSubtaskId) \/ SameId(subs[i].id, subtaskId)]

\* { ...subtask, ...updates, updated: now } for updates that carry a status
\* or nothing ("" is no status): a status given is stored denormalized.
ReviseSubtask(st, status, now) ==
    [st EXCEPT !.status = IF status = "" THEN @ ELSE denormalizeStatus(status),
               !.updated = now]

Revised(found, value) == [found |-> found, value |-> value]

\* The parent record once its first matching subtask is replaced and its
\* own updated field set.
UpdateSubtaskOf(parent, parentTaskId, subtaskId, status, now) ==
    LET s == FindIndex(SubtaskFlags(parent.subtasks, parentTaskId, subtaskId))
    IN  IF s = 0 THEN Revised(FALSE, parent)
        ELSE Revised(TRUE, [parent EXCEPT
                 !.subtasks[s] = ReviseSubtask(parent.subtasks[s], status, now),
                 !.updated = now])

\* The task file `${parentTaskId}.json`, 0 if there is none.  A task file
\* is named after the id of its record; the placeholder record of a file
\* that does not parse has the empty id.
TaskFileIndex(dir, parentTaskId) ==
    IF ~dir.exists THEN 0
    ELSE FindIndex([i \in 1..Len(dir.files) |->
                       IdText(dir.files[i].json.id) = parentTaskId])

\* The part on tasks.json (lines 1053-1092): the parent is looked up among
\* the main tasks only.
UpdateSubtaskInTasksJson(tj, sf, dir, parentTaskId, subtaskId, status, now) ==
    IF ~tj.parses THEN FileOutcome(FALSE, "SyntaxError", tj, dir)
    ELSE LET ex  == extractTasksFromContainer(tj.json, sf)
             p   == FindIndex(IdFlags(ex.tasks, parentTaskId))
             rev == UpdateSubtaskOf(ex.tasks[p], parentTaskId, subtaskId, status, now)
             new == [ex.tasks EXCEPT ![p] = rev.value]
             wr  == writeTasksToContainer(new, ex.isTaggedFormat, ex.currentTag,
                                          MutatedInPlace(tj.json, sf, new))
         IN  IF ~ex.ok THEN FileOutcome(FALSE, ex.err, tj, dir)
             ELSE IF p = 0 THEN FileOutcome(FALSE, "SubtaskNotFound", tj, dir)
             ELSE IF ~rev.found THEN FileOutcome(FALSE, "SubtaskNotFound", tj, dir)
             ELSE IF ~wr.ok THEN FileOutcome(FALSE, "TypeError", tj, dir)
             ELSE FileOutcome(TRUE, "", File(TRUE, TRUE, wr.json), dir)

\* The part on the parent's own task file (lines 1094-1126).
UpdateSubtaskInTaskFile(tj, dir, parentTaskId, subtaskId, status, now) ==
    LET f   == TaskFileIndex(dir, parentTaskId)
        rev == UpdateSubtaskOf(dir.files[f].json, parentTaskId, subtaskId, status, now)
    IN  IF f = 0 THEN FileOutcome(FALSE, "ParentNotFound", tj, dir)
        ELSE IF ~dir.files[f].parses THEN FileOutcome(FALSE, "SyntaxError", tj, dir)
        ELSE IF ~rev.found THEN FileOutcome(FALSE, "SubtaskNotFound", tj, dir)
        ELSE FileOutcome(TRUE, "", tj, [dir EXCEPT !.files[f].json = rev.value])

updateSubtask(tj, sf, dir, parentTaskId, subtaskId, status, now) ==
    IF tj.exists
    THEN UpdateSubtaskInTasksJson(tj, sf, dir, parentTaskId, subtaskId, status, now)
    ELSE UpdateSubtaskInTaskFile(tj, dir, parentTaskId, subtaskId, status, now)

\* ------------------------------------------------------------------------
\* TaskMasterClient.removeSubtask (lines 1139-1193)
\* ------------------------------------------------------------------------
\* The callback of parentTask.subtasks.filter: the subtask stays.
StaysAfterRemove(st, parentTaskId, subtaskId) ==
    /\ ~SameId(st.id, subtaskId)
    /\ ~SameId(st.id, DotJoin(parentTaskId, subtaskId))

RECURSIVE RecordAt(_, _)
\* The record at the end of a path of indexes.
RecordAt(items, path) ==
    IF Len(path) = 1 THEN items[Head(path)]
    ELSE RecordAt(items[Head(path)].subtasks, Tail(path))

RECURSIVE FilterSubtasksAt(_, _, _, _, _)
\* The list once the subtasks of the record at the end of the path are
\* filtered and its updated field set.
FilterSubtasksAt(items, path, parentTaskId, subtaskId, now) ==
    LET i == Head(path)
    IN  IF Len(path) = 1
        THEN [items EXCEPT
                 ![i].subtasks = SelectSeq(items[i].subtasks,
                     LAMBDA st : StaysAfterRemove(st, parentTaskId, subtaskId)),
                 ![i].updated = now]
        ELSE [items EXCEPT ![i].subtasks =
                 FilterSubtasksAt(items[i].subtasks, Tail(path), parentTaskId,
                                  subtaskId, now)]

\* Mutant of removeSubtask: a document that does not parse is left alone
\* and the call returns.
RemoveSubtaskLenient(tj, sf, parentTaskId, subtaskId, now) ==
    Outcome(TRUE, "", "file", tj)

\* A parent without subtasks has the empty list here, so that its error is
\* the one of a subtask that was not found.
removeSubtask(tj, sf, parentTaskId, subtaskId, now) ==
    IF ~tj.exists THEN Outcome(FALSE, "TasksJsonNotFound", "file", tj)
    ELSE IF ~tj.parses THEN Outcome(FALSE, "SyntaxError", "file", tj)
    ELSE LET ex   == extractTasksFromContainer(tj.json, sf)
             path == findParent(ex.tasks, parentTaskId)
             kept == SelectSeq(RecordAt(ex.tasks, path).subtasks,
                         LAMBDA st : StaysAfterRemove(st, parentTaskId, subtaskId))
             new  == FilterSubtasksAt(ex.tasks, path, parentTaskId, subtaskId, now)
             wr   == writeTasksToContainer(new, ex.isTaggedFormat, ex.currentTag,
                                           MutatedInPlace(tj.json, sf, new))
         IN  IF ~ex.ok THEN Outcome(FALSE, ex.err, "file", tj)
             ELSE IF path = <<>> THEN Outcome(FALSE, "ParentNotFound", "file", tj)
             ELSE IF Len(kept) = Len(RecordAt(ex.tasks, path).subtasks)
             THEN Outcome(FALSE, "SubtaskNotFound", "file", tj)
             ELSE IF ~wr.ok THEN Outcome(FALSE, "TypeError", "file", tj)
             ELSE Outcome(TRUE, "", "file", File(TRUE, TRUE, wr.json))

\* ------------------------------------------------------------------------
\* The file operations as steps
\* ------------------------------------------------------------------------
\* The step of addSubtask, updateSubtask or removeSubtask: none of them
\* probes the protocol server.  A call that wrote reads the clock.
FileStep(op, taskId, subtaskId, status, out) ==
    /\ clock < MaxClock
    /\ tasksJson' = out.tj
    /\ taskDir' = out.dir
    /\ clock' = IF out.ok THEN clock + 1 ELSE clock
    /\ last' = [NoCall EXCEPT !.op = op, !.taskId = taskId, !.subtaskId = subtaskId,
                    !.status = status, !.now = clock, !.ok = out.ok,
                    !.err = out.err, !.via = "file",
                    !.trace = <<Ev("file", out.ok)>>]
    /\ UNCHANGED <<stateJson, backends>>

AddSubtask(parentTaskId) ==
    LET out == addSubtask(tasksJson, stateJson, parentTaskId, NewTitles[1], clock)
    IN  FileStep("addSubtask", parentTaskId, <<>>, "",
                 FileOutcome(out.ok, out.err, out.tj, taskDir))

UpdateSubtask(parentTaskId, subtaskId, status) ==
    FileStep("updateSubtask", parentTaskId, subtaskId, status,
             updateSubtask(tasksJson, stateJson, taskDir, parentTaskId, subtaskId,
                           status, clock))

RemoveSubtask(parentTaskId, subtaskId) ==
    LET out == removeSubtask(tasksJson, stateJson, parentTaskId, subtaskId, clock)
    IN  FileStep("removeSubtask", parentTaskId, subtaskId, "",
                 FileOutcome(out.ok, out.err, out.tj, taskDir))

\* ------------------------------------------------------------------------
\* TaskMasterClient.setSubtaskStatus (lines 661-717)
\* ------------------------------------------------------------------------
\* Mutant of SetSubtaskStatusFile: the subtask is looked up by its id at
\* any level, as setTaskStatus does.
SetStatusAnywhere(tj, sf, parentTaskId, subtaskId, status, now) ==
    SetTaskStatusFile(tj, sf, subtaskId, status, now)

\* The file backend (lines 677-711): the parent is the first main task with
\* the id, the subtask the first of its own subtasks with the id; both
\* records are stamped.  A parent without a subtasks array has the empty
\* list here, so that its error is the one of a subtask that was not found.
SetSubtaskStatusFile(tj, sf, parentTaskId, subtaskId, status, now) ==
    IF ~tj.exists THEN Outcome(FALSE, "TasksJsonNotFound", "file", tj)
    ELSE IF ~tj.parses THEN Outcome(FALSE, "SyntaxError", "file", tj)
    ELSE LET ex  == extractTasksFromContainer(tj.json, sf)
             p   == FindIndex(IdFlags(ex.tasks, parentTaskId))
             s   == FindIndex(IdFlags(ex.tasks[p].subtasks, subtaskId))
             new == [ex.tasks EXCEPT
                        ![p].subtasks[s] = Restatus(@, status, now),
                        ![p].updated = now]
             wr  == writeTasksToContainer(new, ex.isTaggedFormat, ex.currentTag,
                                          MutatedInPlace(tj.json, sf, new))
         IN  IF ~ex.ok THEN Outcome(FALSE, ex.err, "file", tj)
             ELSE IF p = 0 THEN Outcome(FALSE, "ParentNotFound", "file", tj)
             ELSE IF s = 0 THEN Outcome(FALSE, "SubtaskNotFound", "file", tj)
             ELSE IF ~wr.ok THEN Outcome(FALSE, "TypeError", "file", tj)
             ELSE Outcome(TRUE, "", "file", File(TRUE, TRUE, wr.json))

\* setSubtaskStatus: the protocol client when the probe answers and the
\* call succeeds, else the file backend.
setSubtaskStatus(mcpUp, mcpOk, tj, sf, parentTaskId, subtaskId, status, now) ==
    IF mcpUp /\ mcpOk THEN Outcome(TRUE, "", "mcp", tj)
    ELSE SetSubtaskStatusFile(tj, sf, parentTaskId, subtaskId, status, now)

\* The call as a step.  The tool call is mcpClient.setTaskStatus(subtaskId,
\* status, currentTag) (line 670): the id it passes is subtaskId.
SetSubtaskStatus(parentTaskId, subtaskId, status, mcpUp, mcpOk) ==
    LET out == setSubtaskStatus(mcpUp, mcpOk, tasksJson, stateJson, parentTaskId,
                                subtaskId, status, clock)
    IN  /\ clock < MaxClock
        /\ tasksJson' = out.tj
        /\ clock' = IF out.via = "file" /\ out.ok THEN clock + 1 ELSE clock
        /\ last' = [NoCall EXCEPT !.op = "setSubtaskStatus", !.taskId = parentTaskId,
                        !.subtaskId = subtaskId, !.status = status, !.mcpUp = mcpUp,
                        !.now = clock, !.ok = out.ok, !.err = out.err,
                        !.via = out.via,
                        !.trace = SetTaskStatusTrace(mcpUp, mcpOk, out),
                        !.mcpId = IF mcpUp THEN subtaskId ELSE <<>>]
        /\ UNCHANGED <<stateJson, taskDir, backends>>

\* ------------------------------------------------------------------------
\* SpecFile: one call on a document of any shape, damaged ones included
\* ------------------------------------------------------------------------
InitFile ==
    /\ tasksJson \in {MissingFile, CorruptFile} \cup {File(TRUE, TRUE, j) : j \in SampleJsons}
    /\ stateJson \in SampleStates
    /\ taskDir \in SampleDirs
    /\ Fresh
    /\ last = NoCall

ParentArgs == {<<"1">>, <<"3">>, <<"9">>}
SubtaskArgs == {<<"1">>, <<"1", ".", "1">>, <<"9">>}

ListOnFile == last.op = "none" /\ GetTasks(FALSE, NoReply)

ResolveOnFile ==
    /\ last.op = "none"
    /\ \E taskId \in ParentArgs, subtaskId \in {<<>>} \cup SubtaskArgs :
           GetTaskDetails(taskId, subtaskId, FALSE, NoReply)

SetStatusOnFile ==
    /\ last.op = "none"
    /\ \E taskId \in ParentArgs, status \in StatusArgs :
           SetTaskStatus(taskId, status, FALSE, FALSE)

AddOnFile == last.op = "none" /\ \E parentTaskId \in ParentArgs : AddSubtask(parentTaskId)

UpdateOnFile ==
    /\ last.op = "none"
    /\ \E parentTaskId \in ParentArgs, subtaskId \in SubtaskArgs,
          status \in {""} \cup StatusArgs :
           UpdateSubtask(parentTaskId, subtaskId, status)

RemoveOnFile ==
    /\ last.op = "none"
    /\ \E parentTaskId \in ParentArgs, subtaskId \in SubtaskArgs :
           RemoveSubtask(parentTaskId, subtaskId)

SetSubtaskStatusOnFile ==
    /\ last.op = "none"
    /\ \E parentTaskId \in ParentArgs, subtaskId \in SubtaskArgs, status \in StatusArgs :
           SetSubtaskStatus(parentTaskId, subtaskId, status, FALSE, FALSE)

NextFile ==
    \/ ListOnFile
    \/ ResolveOnFile
    \/ SetStatusOnFile
    \/ SetSubtaskStatusOnFile
    \/ AddOnFile
    \/ UpdateOnFile
    \/ RemoveOnFile

SpecFile == InitFile /\ [][NextFile]_vars

\* ------------------------------------------------------------------------
\* Claims on damaged documents
\* ------------------------------------------------------------------------
\* The call read tasks.json on the file backend and found it damaged: it
\* does not parse, or it has none of the recognized shapes with a task
\* array for the current context or master.
DamagedCall ==
    /\ last.op # "none" /\ last.via = "file"
    /\ last.before.exists
    /\ \/ ~last.before.parses
       \/ ~extractTasksFromContainer(last.before.json, stateJson).ok

Mutations == {"setTaskStatus", "addSubtask", "updateSubtask", "removeSubtask"}

\* C18, as claimed: on a damaged document getTasks returns the empty list
\* without an error, and getTaskDetails and every mutation fail with an
\* error.
C18_AsClaimed ==
    DamagedCall =>
        /\ last.op = "getTasks" => last.ok /\ last.tasks = <<>>
        /\ last.op = "getTaskDetails" => ~last.ok
        /\ last.op \in Mutations => ~last.ok

\* C18: on a damaged document getTasks returns the empty list and
\* getTaskDetails returns null, both without an error; setTaskStatus,
\* addSubtask, updateSubtask and removeSubtask fail with an error and leave
\* the files as they were.
C18_ReadsDegradeWritesFail ==
    DamagedCall =>
        /\ last.op = "getTasks" => last.ok /\ last.tasks = <<>>
        /\ last.op = "getTaskDetails" => last.ok /\ ~last.found.found
        /\ last.op \in Mutations =>
               /\ ~last.ok /\ last.err # ""
               /\ tasksJson = last.before

\* getTaskDetails was called with a subtask id on a document that does not
\* parse, and returned null.
C18_Witness ==
    /\ DamagedCall
    /\ ~last.before.parses
    /\ last.op = "getTaskDetails"
    /\ last.subtaskId # <<>>
    /\ ~last.found.found

\* ------------------------------------------------------------------------
\* The subprocess-routed calls, await by await
\* ------------------------------------------------------------------------
\* executeTaskMasterCLI up to its first await: isTaskMasterInstalled returns
\* the cached answer and the command is started, or the cache is empty and
\* the version probe is started.
EnterCli(call) ==
    IF installed = "null" THEN [call EXCEPT !.pos = "version"]
    ELSE [call EXCEPT !.pos = "command", !.direct = (installed = "true")]

\* The state once a call has returned or thrown.
CallEnds(c, ok, err, via, trace) ==
    /\ inflight' = [inflight EXCEPT ![c] = Idle]
    /\ last' = [NoCall EXCEPT !.op = inflight[c].op, !.ok = ok, !.err = err,
                    !.via = via, !.trace = trace,
                    !.mcpUp = \E i \in 1..Len(trace) : trace[i] = Ev("probe", TRUE)]
    /\ UNCHANGED <<files, tagState, mcpTag, installed, probes, clock>>

\* createTag(tagName) is called: it goes to executeTaskMasterCLI at once.
BeginCreateTag(c) ==
    /\ inflight[c] = Idle
    /\ inflight' = [inflight EXCEPT ![c] = EnterCli(Call("createTag", "idle", FALSE, <<>>))]
    /\ UNCHANGED <<files, tagState, mcpTag, installed, probes, clock, last>>

\* expandTaskWithCLI(taskId) is called: it awaits isMCPServerAvailable().
BeginExpandTask(c) ==
    /\ inflight[c] = Idle
    /\ inflight' = [inflight EXCEPT ![c] = Call("expandTaskWithCLI", "probe", FALSE, <<>>)]
    /\ UNCHANGED <<files, tagState, mcpTag, installed, probes, clock, last>>

\* The liveness probe answers: the tool call is started, or
\* executeTaskMasterCLI is entered.
ProbeAnswers(c, mcpUp) ==
    /\ inflight[c].pos = "probe"
    /\ inflight' = [inflight EXCEPT ![c] =
           IF mcpUp
           THEN [inflight[c] EXCEPT !.pos = "mcp", !.trace = <<Ev("probe", TRUE)>>]
           ELSE EnterCli([inflight[c] EXCEPT !.trace = <<Ev("probe", FALSE)>>])]
    /\ UNCHANGED <<files, tagState, mcpTag, installed, probes, clock, last>>

\* The tool call returns or throws, and so does the call.
ToolCallEnds(c, mcpOk) ==
    /\ inflight[c].pos = "mcp"
    /\ CallEnds(c, mcpOk, IF mcpOk THEN "" ELSE "McpExpandFailed", "mcp",
                Append(inflight[c].trace, Ev("mcp", mcpOk)))

\* `task-master --version` ends: the answer is cached and the command is
\* started, directly or through npx.
VersionEnds(c, ver) ==
    /\ inflight[c].pos = "version"
    /\ installed' = IF ver THEN "true" ELSE "false"
    /\ probes' = Append(probes, ver)
    /\ inflight' = [inflight EXCEPT ![c] =
           [inflight[c] EXCEPT !.pos = "command", !.direct = ver,
                               !.trace = Append(@, Ev("version", ver))]]
    /\ UNCHANGED <<files, tagState, mcpTag, clock, last>>

\* The command ends, and so does the call.
CommandEnds(c, cliOk) ==
    /\ inflight[c].pos = "command"
    /\ CallEnds(c, cliOk, IF cliOk THEN "" ELSE "CliFailed", "cli",
                Append(inflight[c].trace,
                       Ev(IF inflight[c].direct THEN "cli" ELSE "npx", cliOk)))

\* ------------------------------------------------------------------------
\* SpecProbe: calls of one store that may overlap
\* ------------------------------------------------------------------------
InitProbe ==
    /\ tasksJson = MissingFile
    /\ stateJson = NoState
    /\ taskDir = NoDir
    /\ Fresh
    /\ last = NoCall

NextProbe ==
    \E c \in 1..MaxCalls :
        \/ BeginCreateTag(c)
        \/ BeginExpandTask(c)
        \/ \E mcpUp \in BOOLEAN : ProbeAnswers(c, mcpUp)
        \/ \E mcpOk \in BOOLEAN : ToolCallEnds(c, mcpOk)
        \/ \E ver \in BOOLEAN : VersionEnds(c, ver)
        \/ \E cliOk \in BOOLEAN : CommandEnds(c, cliOk)

SpecProbe == InitProbe /\ [][NextProbe]_vars

\* ------------------------------------------------------------------------
\* Claims on the probes
\* ------------------------------------------------------------------------
\* C19, as claimed: the version probe runs at most once in the life of a
\* store and every command is started as its first answer says; the
\* protocol server's answer is not cached: a call that made a tool call
\* made a liveness probe before it.
C19_AsClaimed ==
    /\ Len(probes) <= 1
    /\ \A c \in 1..MaxCalls :
           inflight[c].pos = "command" =>
               /\ probes # <<>>
               /\ inflight[c].direct = probes[1]
    /\ \A i \in 1..Len(last.trace) :
           last.trace[i].backend = "mcp" =>
               \E j \in 1..(i - 1) : last.trace[j] = Ev("probe", TRUE)

\* ------------------------------------------------------------------------
\* TagManager.isTaggedFormat
\* ------------------------------------------------------------------------
\* !!(parsed.master || parsed.tags) of the parsed tasks.json; false when the
\* file is absent or does not parse.  An array has neither property, and a
\* context or a tags object is truthy whatever it holds.
isTaggedFormat(tj) ==
    /\ tj.exists
    /\ tj.parses
    /\ ~tj.json.isArray
    /\ ("master" \in DOMAIN tj.json.ctx \/ tj.json.hasTags)

\* The call: it reads tasks.json and changes nothing.
IsTaggedFormat ==
    /\ last' = [NoCall EXCEPT !.op = "isTaggedFormat",
                    !.tagged = isTaggedFormat(tasksJson)]
    /\ UNCHANGED <<files, backends, clock>>

NextFormat == IsTaggedFormat

SpecFormat == InitRead /\ [][NextFormat]_vars

\* The document is there, parses, and extractTasksFromContainer takes one
\* of its two tagged branches on it.
ClassifiedTagged ==
    /\ tasksJson.exists
    /\ tasksJson.parses
    /\ extractTasksFromContainer(tasksJson.json, stateJson).isTaggedFormat

\* C20, as claimed: isTaggedFormat answers true exactly when the document
\* is read as a direct-tag or nested-tag document by
\* extractTasksFromContainer, and false for an array, a legacy object and
\* an absent file.
C20_AsClaimed ==
    last.op = "isTaggedFormat" => (last.tagged <=> ClassifiedTagged)

\* ------------------------------------------------------------------------
\* Claims on the document a mutation writes back
\* ------------------------------------------------------------------------
FileMutations == Mutations \cup {"setSubtaskStatus"}

\* A mutation of the file backend wrote tasks.json.
WroteDocument ==
    /\ last.op \in FileMutations
    /\ last.via = "file"
    /\ last.ok
    /\ last.before.exists

\* Which of the four shapes a document has.
ShapeOf(json) ==
    IF json.isArray THEN "array"
    ELSE IF json.hasTags THEN "nested-tag"
    ELSE IF DOMAIN json.ctx # {} THEN "direct-tag"
    ELSE "legacy"

\* The context whose task list the call read and mutated.
MutatedContext == extractTasksFromContainer(last.before.json, stateJson).currentTag

\* C21: a mutation of the file backend writes the document back in the
\* shape it was read in, with the same keys, and in a tagged document every
\* context other than the mutated one is as it was, task list and metadata.
C21_ShapeAndFrame ==
    WroteDocument =>
        /\ tasksJson.exists /\ tasksJson.parses
        /\ ShapeOf(tasksJson.json) = ShapeOf(last.before.json)
        /\ tasksJson.json.hasTasks = last.before.json.hasTasks
        /\ DOMAIN tasksJson.json.ctx = DOMAIN last.before.json.ctx
        /\ DOMAIN tasksJson.json.tags = DOMAIN last.before.json.tags
        /\ \A t \in DOMAIN TagMapOf(last.before.json) \ {MutatedContext} :
               TagMapOf(tasksJson.json)[t] = TagMapOf(last.before.json)[t]

\* A subtask was removed in the feature context of a tagged document whose
\* master context holds tasks too.
C21_Witness ==
    /\ WroteDocument
    /\ last.op = "removeSubtask"
    /\ IsTaggedDocument(last.before.json)
    /\ MutatedContext = "feature"
    /\ HasTaskArray(TagMapOf(last.before.json), "master")
    /\ TagMapOf(last.before.json)["master"].tasks # <<>>
    /\ tasksJson # last.before

\* ------------------------------------------------------------------------
\* Overlapping setTaskStatus calls, await by await
\* ------------------------------------------------------------------------
\* setTaskStatus suspends at `await this.isMCPServerAvailable()` (line 584)
\* and at `await this.mcpClient.setTaskStatus(...)` (line 588).  From line
\* 595 to the end it runs without suspending: existsSync, readFileSync,
\* JSON.parse, the update and writeFileSync are synchronous, so the file
\* backend is part of the step that resumes the call.

\* A call in progress: the status it was given and the clock when it began.
StatusCall(pos, status, began, trace) ==
    [op |-> "setTaskStatus", pos |-> pos, direct |-> FALSE, trace |-> trace,
     status |-> status, began |-> began]

\* Call c is about the main task with id c.
RaceTaskId(c) == CountText(c)

RaceTasks ==
    [i \in 1..(MaxCalls + 1) |-> MkTask(Titles[i], NumId(CountText(i)), "pending", 0, <<>>)]

\* The call up to its first await.
BeginSetTaskStatus(c, status) ==
    /\ inflight[c] = Idle
    /\ inflight' = [inflight EXCEPT ![c] = StatusCall("probe", status, clock, <<>>)]
    /\ UNCHANGED <<files, tagState, mcpTag, installed, probes, clock, last>>

\* Mutant of StatusCallEnds: the file backend works on the document as the
\* previous call found it, as if it had read before that call wrote.
StatusCallEndsStale(c, out, trace) ==
    LET read  == IF last.op = "setTaskStatus" THEN last.before ELSE tasksJson
        stale == SetTaskStatusFile(read, stateJson, RaceTaskId(c), inflight[c].status,
                                   clock)
    IN  /\ inflight' = [inflight EXCEPT ![c].pos = IF out.ok THEN "returned" ELSE "threw",
                                        ![c].trace = trace]
        /\ tasksJson' = IF out.via = "file" THEN stale.tj ELSE tasksJson
        /\ clock' = IF out.via = "file" /\ out.ok THEN clock + 1 ELSE clock
        /\ last' = [NoCall EXCEPT !.op = "setTaskStatus", !.taskId = RaceTaskId(c),
                        !.status = inflight[c].status, !.now = clock, !.ok = out.ok,
                        !.err = out.err, !.via = out.via, !.trace = trace,
                        !.mcpUp = trace[1].ok]
        /\ UNCHANGED <<stateJson, taskDir, tagState, mcpTag, installed, probes>>

\* The call returns or throws: what it left in tasks.json and when.
StatusCallEnds(c, out, trace) ==
    /\ inflight' = [inflight EXCEPT ![c].pos = IF out.ok THEN "returned" ELSE "threw",
                                    ![c].trace = trace]
    /\ tasksJson' = out.tj
    /\ clock' = IF out.via = "file" /\ out.ok THEN clock + 1 ELSE clock
    /\ last' = [NoCall EXCEPT !.op = "setTaskStatus", !.taskId = RaceTaskId(c),
                    !.status = inflight[c].status, !.now = clock, !.ok = out.ok,
                    !.err = out.err, !.via = out.via, !.trace = trace,
                    !.mcpUp = trace[1].ok]
    /\ UNCHANGED <<stateJson, taskDir, tagState, mcpTag, installed, probes>>

\* The liveness probe answers: the tool call is started, or the file
\* backend runs to the end of the call.
StatusProbeAnswers(c, mcpUp) ==
    /\ inflight[c].op = "setTaskStatus"
    /\ inflight[c].pos = "probe"
    /\ IF mcpUp
       THEN /\ inflight' = [inflight EXCEPT ![c].pos = "mcp",
                                            ![c].trace = <<Ev("probe", TRUE)>>]
            /\ UNCHANGED <<files, tagState, mcpTag, installed, probes, clock, last>>
       ELSE LET out == SetTaskStatusFile(tasksJson, stateJson, RaceTaskId(c),
                                         inflight[c].status, clock)
            IN  StatusCallEnds(c, out, SetTaskStatusTrace(FALSE, FALSE, out))

\* The tool call returns, and so does the call; or it throws, and the file
\* backend runs to the end of the call.
StatusToolCallEnds(c, mcpOk) ==
    /\ inflight[c].op = "setTaskStatus"
    /\ inflight[c].pos = "mcp"
    /\ LET out == setTaskStatus(TRUE, mcpOk, tasksJson, stateJson, RaceTaskId(c),
                                inflight[c].status, clock)
       IN  StatusCallEnds(c, out, SetTaskStatusTrace(TRUE, mcpOk, out))

RaceTags == [t \in TagNames |-> TagData(TRUE, RaceTasks, 0)]

RaceDocuments ==
    {ArrayJson(RaceTasks), LegacyJson(RaceTasks),
     DirectTagJson(RaceTags), NestedTagJson(RaceTags)}

InitRace ==
    /\ tasksJson \in {File(TRUE, TRUE, j) : j \in RaceDocuments}
    /\ stateJson \in SampleStates
    /\ taskDir = NoDir
    /\ Fresh
    /\ last = NoCall

NextRace ==
    \E c \in 1..MaxCalls :
        \/ \E status \in StatusArgs : BeginSetTaskStatus(c, status)
        \/ \E mcpUp \in BOOLEAN : StatusProbeAnswers(c, mcpUp)
        \/ \E mcpOk \in BOOLEAN : StatusToolCallEnds(c, mcpOk)

SpecRace == InitRace /\ [][NextRace]_vars

\* ------------------------------------------------------------------------
\* Claims on overlapping mutations
\* ------------------------------------------------------------------------
\* Call c returned normally from the file backend.
WroteStatus(c) ==
    /\ inflight[c].pos = "returned"
    /\ inflight[c].trace[Len(inflight[c].trace)] = Ev("file", TRUE)

\* The document holds the update of call c: the main task c of the list the
\* call mutated has the status the call was given.
HoldsUpdate(c) ==
    LET tasks == extractTasksFromContainer(tasksJson.json, stateJson).tasks
        p     == FindIndex(IdFlags(tasks, RaceTaskId(c)))
    IN  /\ p # 0
        /\ tasks[p].status = denormalizeStatus(inflight[c].status)
        /\ tasks[p].updated # 0

\* The two calls began before either had written.
Overlapped(c, d) ==
    /\ c # d
    /\ WroteStatus(c) /\ WroteStatus(d)
    /\ inflight[c].began = inflight[d].began

LostUpdate == \E c \in 1..MaxCalls : WroteStatus(c) /\ ~HoldsUpdate(c)

HierarchyInput == tasksJson.json.tasks

InputIds == {IdText(HierarchyInput[i].id) : i \in 1..Len(HierarchyInput)}

\* The list has no subtask array with an element, and a dotted id.
FlatDotted(tasks) ==
    /\ \A i \in 1..Len(tasks) : tasks[i].subtasks = <<>>
    /\ \E i \in 1..Len(tasks) : HasDot(IdText(tasks[i].id))

\* The input record t is a root of the output.
PlacedAtRoot(t) ==
    \E i \in 1..Len(last.tasks) :
        /\ last.tasks[i].title = t.title
        /\ last.tasks[i].id = t.id

\* The input record t is, at some depth of the output, a subtask of a
\* record with the id before its last dot, and has that id as parentId.
PlacedUnderParent(t) ==
    \E p \in TasksWithin(last.tasks) :
        /\ IdText(p.id) = getParentId(IdText(t.id))
        /\ \E i \in 1..Len(p.subtasks) :
               /\ p.subtasks[i].title = t.title
               /\ p.subtasks[i].id = t.id
               /\ p.subtasks[i].parentId = getParentId(IdText(t.id))

\* C23, as claimed: of a flat list with a dotted id, every record with a
\* dotted id ends among the subtasks of the record whose id is the part
\* before its last dot, with that id as parentId, or among the roots when
\* no record has that id; a list with a subtask array that has an element
\* is returned as it is.
C23_AsClaimed ==
    HierarchyCall =>
        IF FlatDotted(HierarchyInput)
        THEN \A i \in 1..Len(HierarchyInput) :
                 LET t == HierarchyInput[i]
                 IN  HasDot(IdText(t.id)) =>
                         IF getParentId(IdText(t.id)) \in InputIds
                         THEN PlacedUnderParent(t)
                         ELSE PlacedAtRoot(t)
        ELSE (\E i \in 1..Len(HierarchyInput) : HierarchyInput[i].subtasks # <<>>)
                 => last.tasks = HierarchyInput

\* ------------------------------------------------------------------------
\* SpecSubtask: one setSubtaskStatus call, on either backend
\* ------------------------------------------------------------------------
SubtaskParents == {<<"1">>, <<"2">>, <<"1", "1">>}

SubtaskIds == {<<"1">>, <<"2">>, <<"1", ".", "1">>}

SetSubtaskStatusOnce ==
    /\ last.op = "none"
    /\ \E parentTaskId \in SubtaskParents, subtaskId \in SubtaskIds,
          status \in StatusArgs, mcpUp \in BOOLEAN, mcpOk \in BOOLEAN :
          /\ mcpOk => mcpUp
          /\ SetSubtaskStatus(parentTaskId, subtaskId, status, mcpUp, mcpOk)

NextSubtask == SetSubtaskStatusOnce

SpecSubtask == InitStatus /\ [][NextSubtask]_vars

\* ------------------------------------------------------------------------
\* Claims on setSubtaskStatus
\* ------------------------------------------------------------------------
SubtaskStatusCall == last.op = "setSubtaskStatus"

\* The records of the document whose status the call changed.
StatusChanged ==
    {x \in AllRecords(tasksJson.json) :
        \A y \in AllRecords(last.before.json) : y.title = x.title => y.status # x.status}

\* The record is a subtask with the id subtaskId of a main task of the
\* active context with the id parentTaskId.
SubtaskOfParent(r) ==
    \E i \in 1..Len(ActiveTasks(tasksJson)) :
        /\ SameId(ActiveTasks(tasksJson)[i].id, last.taskId)
        /\ \E j \in 1..Len(ActiveTasks(tasksJson)[i].subtasks) :
               /\ ActiveTasks(tasksJson)[i].subtasks[j] = r
               /\ SameId(r.id, last.subtaskId)

\* C24, as claimed: on the protocol client the call names the subtask
\* subtaskId of parentTaskId; on the file backend it changes the status of
\* no other record than a subtask subtaskId of a main task parentTaskId,
\* and when it fails the document is as it was.
C24_AsClaimed ==
    SubtaskStatusCall =>
        /\ last.mcpId # <<>> => last.mcpId = DotJoin(last.taskId, last.subtaskId)
        /\ last.via = "file" /\ last.ok => \A r \in StatusChanged : SubtaskOfParent(r)
        /\ last.via = "file" /\ ~last.ok => tasksJson = last.before

\* ------------------------------------------------------------------------
\* SpecSiblings: addSubtask and removeSubtask on one parent
\* ------------------------------------------------------------------------
SiblingIdTexts == {<<"1">>, <<"2">>, <<"3">>}

\* The subtask lists of the parent: pairwise distinct ids in any order, as
\* calls of addSubtask and removeSubtask or an editor may have left them.
SiblingLists ==
    {<<>>}
        \cup {<<MkTask("T2", StrId(a), "pending", 0, <<>>)>> : a \in SiblingIdTexts}
        \cup {<<MkTask("T2", StrId(p[1]), "pending", 0, <<>>),
                MkTask("T3", StrId(p[2]), "done", 0, <<>>)>> :
                  p \in {q \in SiblingIdTexts \X SiblingIdTexts : q[1] # q[2]}}

\* Main task 1 with the subtasks, and main task 2 without any.
SiblingTasks(subs) ==
    <<MkTask("T1", NumId(<<"1">>), "pending", 0, subs),
      MkTask("T4", NumId(<<"2">>), "pending", 0, <<>>)>>

SiblingDocuments ==
    UNION {{ArrayJson(SiblingTasks(s)), LegacyJson(SiblingTasks(s)),
            DirectTagJson(TwoTags(SiblingTasks(s))),
            NestedTagJson(TwoTags(SiblingTasks(s)))} : s \in SiblingLists}

InitSiblings ==
    /\ tasksJson \in {File(TRUE, TRUE, j) : j \in SiblingDocuments}
    /\ stateJson = NoState
    /\ taskDir = NoDir
    /\ Fresh
    /\ last = NoCall

AddSibling == \E parentTaskId \in {<<"1">>, <<"2">>} : AddSubtask(parentTaskId)

RemoveSibling ==
    \E parentTaskId \in {<<"1">>, <<"2">>}, subtaskId \in SiblingIdTexts :
        RemoveSubtask(parentTaskId, subtaskId)

NextSiblings == AddSibling \/ RemoveSibling

SpecSiblings == InitSiblings /\ [][NextSiblings]_vars

\* ------------------------------------------------------------------------
\* Claims on sibling ids
\* ------------------------------------------------------------------------
\* No two subtasks of a record of the list carry the same id.
DistinctSiblings(tasks) ==
    \A r \in TasksWithin(tasks) :
        \A i, j \in 1..Len(r.subtasks) :
            i # j => IdText(r.subtasks[i].id) # IdText(r.subtasks[j].id)

\* C25, as claimed: whatever addSubtask and removeSubtask calls were made,
\* the subtasks of every task of the active context have pairwise distinct
\* ids.
C25_AsClaimed == DistinctSiblings(ActiveTasks(tasksJson))

\* ------------------------------------------------------------------------
\* SpecParent: addSubtask and removeSubtask on every sampled list
\* ------------------------------------------------------------------------
AddUnderParent ==
    /\ last.op = "none"
    /\ \E parentTaskId \in {<<"1">>, <<"2">>, <<"1", "1">>} : AddSubtask(parentTaskId)

RemoveUnderParent ==
    /\ last.op = "none"
    /\ \E parentTaskId \in {<<"1">>, <<"2">>, <<"1", "1">>},
          subtaskId \in {<<"1">>, <<"2">>} :
           RemoveSubtask(parentTaskId, subtaskId)

NextParent == AddUnderParent \/ RemoveUnderParent

SpecParent == InitResolve /\ [][NextParent]_vars

\* ------------------------------------------------------------------------
\* Claims on the parent of addSubtask and removeSubtask
\* ------------------------------------------------------------------------
\* addSubtask or removeSubtask wrote, and a main task had the parent id.
ParentCall ==
    /\ last.op \in {"addSubtask", "removeSubtask"}
    /\ last.ok
    /\ FindIndex(IdFlags(ActiveTasks(last.before), last.taskId)) # 0

\* C26, as claimed: when a main task has the id parentTaskId, addSubtask and
\* removeSubtask change the subtasks of the first such main task and leave
\* every other main task, with all below it, as it was.
C26_AsClaimed ==
    ParentCall =>
        LET before == ActiveTasks(last.before)
            after  == ActiveTasks(tasksJson)
            p      == FindIndex(IdFlags(before, last.taskId))
        IN  /\ Len(after) = Len(before)
            /\ \A i \in 1..Len(before) : i # p => after[i] = before[i]
            /\ Len(after[p].subtasks) # Len(before[p].subtasks)

\* ------------------------------------------------------------------------
\* SpecListed: getTaskDetails on the forest built from a flat list
\* ------------------------------------------------------------------------
ResolveListed ==
    /\ last.op = "none"
    /\ \E taskId \in HierarchyIds : GetTaskDetails(taskId, <<>>, FALSE, NoReply)

NextListed == ResolveListed

SpecListed == InitHierarchy /\ [][NextListed]_vars

\* ------------------------------------------------------------------------
\* Claims on resolving what getTasks lists
\* ------------------------------------------------------------------------
\* The stored list is flat, its ids are pairwise distinct, and the id
\* before the last dot of every dotted id is an id of the list.
WellFormedFlat(tasks) ==
    /\ \A i \in 1..Len(tasks) : tasks[i].subtasks = <<>>
    /\ \A i, j \in 1..Len(tasks) : i # j => IdText(tasks[i].id) # IdText(tasks[j].id)
    /\ \A i \in 1..Len(tasks) :
           HasDot(IdText(tasks[i].id)) =>
               \E j \in 1..Len(tasks) : IdText(tasks[j].id) = getParentId(IdText(tasks[i].id))

\* getTaskDetails was asked for the id of a task of the forest getTasks
\* built from such a list.
ListedCall ==
    /\ last.op = "getTaskDetails"
    /\ WellFormedFlat(HierarchyInput)
    /\ \E t \in TasksWithin(last.tasks) : IdText(t.id) = last.taskId

\* C27, as claimed: getTaskDetails(t.id) returns t for every task t, of
\* any depth, of the forest built from a flat list of pairwise distinct
\* ids that has every parent.
C27_AsClaimed ==
    ListedCall =>
        /\ last.found.found
        /\ last.found.task \in TasksWithin(last.tasks)
        /\ IdText(last.found.task.id) = last.taskId

\* ------------------------------------------------------------------------
\* SpecTags: the tag operations, from a valid tag context
\* ------------------------------------------------------------------------
\* The store starts with a current tag the task document has.
InitTags ==
    /\ tasksJson \in {MissingFile} \cup {File(TRUE, TRUE, j) : j \in SampleJsons}
    /\ stateJson \in {File(TRUE, TRUE, StateRecord(t, FALSE)) :
                         t \in getAvailableTags(tasksJson)}
    /\ taskDir = NoDir
    /\ Fresh
    /\ last = NoCall

NextTags == Switch \/ SetCurrent \/ Delete \/ DeleteInManager

SpecTags == InitTags /\ [][NextTags]_vars

\* ------------------------------------------------------------------------
\* Claims on the tag context
\* ------------------------------------------------------------------------
\* C28, as claimed: whatever switchTag, setCurrentTag and deleteTag calls
\* were made, the current tag is one of the available tags.
C28_AsClaimed == tagState.currentTag \in getAvailableTags(tasksJson)

\* ------------------------------------------------------------------------
\* SpecSwitch: switchTag with the write of state.json
\* ------------------------------------------------------------------------
\* TaskMasterClient.switchTag(tagName) with all it calls: use_tag on the
\* protocol server if the probe answers, MCPClient.currentTag assigned when
\* the tool call returned, then TagManager.setCurrentTag, which validates
\* the name, assigns the field and saves the state.
SwitchTagSaving(name, mcpUp, mcpOk, write) ==
    LET trace == <<Ev("probe", mcpUp)>> \o (IF mcpUp THEN <<Ev("mcp", mcpOk)>> ELSE <<>>)
        saved == saveState(setCurrentTag(tagState, name).state, stateJson, write)
    IN  /\ mcpTag' = IF mcpUp /\ mcpOk THEN name ELSE mcpTag
        /\ tagState' = IF (mcpUp /\ ~mcpOk) \/ ~validateTagName(name)
                       THEN tagState ELSE saved.state
        /\ stateJson' = IF (mcpUp /\ ~mcpOk) \/ ~validateTagName(name)
                        THEN stateJson ELSE saved.file
        /\ last' = [NoCall EXCEPT !.op = "switchTag", !.tag = name, !.mcpUp = mcpUp,
                        !.ok = /\ ~(mcpUp /\ ~mcpOk)
                               /\ validateTagName(name)
                               /\ saved.ok,
                        !.err = IF mcpUp /\ ~mcpOk THEN "McpFailed"
                                ELSE IF ~validateTagName(name) THEN "InvalidTagName"
                                ELSE IF ~saved.ok THEN "write failed"
                                ELSE "",
                        !.trace = IF (mcpUp /\ ~mcpOk) \/ ~validateTagName(name)
                                  THEN trace ELSE Append(trace, Ev("file", saved.ok))]
        /\ UNCHANGED <<tasksJson, taskDir, installed, inflight, probes, clock>>

SwitchSaving ==
    \E name \in TagArgs, mcpUp \in BOOLEAN, mcpOk \in BOOLEAN, write \in WriteOutcomes :
        /\ McpAnswers(mcpUp, mcpOk)
        /\ SwitchTagSaving(name, mcpUp, mcpOk, write)

NextSwitch == SwitchSaving

SpecSwitch == InitState /\ [][NextSwitch]_vars

\* ------------------------------------------------------------------------
\* Claims on switchTag
\* ------------------------------------------------------------------------
\* C29, as claimed: when switchTag(name) returns, the tag manager, its
\* state record and, if the probe answered, the protocol client name the
\* new tag; when it throws, the protocol client's tag and the tag
\* manager's are what they were.
C29_AsClaimed ==
    last.op = "switchTag" =>
        IF last.ok
        THEN /\ tagState.currentTag = last.tag
             /\ StateFileTag(stateJson) = last.tag
             /\ last.mcpUp => mcpTag = last.tag
        ELSE /\ mcpTag = last.mcpBefore
             /\ tagState.currentTag = last.tagBefore

\* ------------------------------------------------------------------------
\* Claims on addTask
\* ------------------------------------------------------------------------
\* C30, as claimed: when addTask returns normally, it has called the
\* protocol client's add_task tool or run the task-master command.
C30_AsClaimed ==
    last.op = "addTask" /\ last.ok =>
        \E i \in 1..Len(last.trace) : last.trace[i].backend \in {"mcp", "cli", "npx"}

====
